---- MODULE Spec2Model ----
(***************************************************************************)
(* DDoS detection and mitigation controller                                *)
(* (src/examples/ryu/ryu_ddos_detection_app.py).                           *)
(*                                                                         *)
(* State: the fields of DDoSDetectionController.  One action per handler,  *)
(* REST operation or background-thread iteration; each action is the whole *)
(* handler (one loop iteration for the two threads).  Where the threads    *)
(* and handlers are interleaved, the same code runs statement by statement *)
(* and reset_call and calls hold the positions.  The L2 forwarding         *)
(* part of packet_in_handler (mac_to_port, packet-out) and the activity    *)
(* log are read by none of the modelled operations and are left out.       *)
(*                                                                         *)
(* Python values: a dict is a record [keys, val] (keys in insertion order, *)
(* val the mapping); a JSON payload is tagged [kind, v]; a rate n/w (true  *)
(* division) is kept as the pair [n, w].                                   *)
(***************************************************************************)
EXTENDS Integers, Sequences, FiniteSets, TLC

\* ---- bounds of the model ----
MaxTime == 2
MaxPkts == 1

\* ---- program constants ----
InactiveSeconds == 60
DefaultWindow == 10
DefaultDuration == 300
DropPriority == 100
HistoryMaxLen == 10000

\* ---- input universes ----
Addrs == {"10.0.0.3", "10.0.0.5"}
\* addresses POSTed to /whitelist
WhitelistIps == {"10.0.0.3"}
Dpids == {1, 2}
PktSizes == {3}
EtherTypes == {"ip", "arp", "lldp"}
NoIp == ""
\* clock advance between the two time reads of one ledger update
ClockSkews == {0}

VARIABLES clock, switches, traffic_stats, blocked_ips, config,
          detection_rules, whitelist, total_packet_count, total_byte_count,
          out, last, reset_call, calls

vars == <<clock, switches, traffic_stats, blocked_ips, config,
          detection_rules, whitelist, total_packet_count, total_byte_count,
          out, last, reset_call, calls>>

\* ---- Python dict / list helpers ----
EmptyDict == [keys |-> <<>>, val |-> <<>>]

Has(d, k) == k \in DOMAIN d.val

Put(d, k, v) ==
    IF Has(d, k)
    THEN [d EXCEPT !.val[k] = v]
    ELSE [keys |-> Append(d.keys, k),
          val  |-> [x \in (DOMAIN d.val) \cup {k} |-> IF x = k THEN v ELSE d.val[x]]]

Del(d, k) ==
    [keys |-> SelectSeq(d.keys, LAMBDA x : x # k),
     val  |-> [x \in (DOMAIN d.val) \ {k} |-> d.val[x]]]

Get(r, k, default) == IF k \in DOMAIN r THEN r[k] ELSE default

SeqToSet(s) == {s[i] : i \in DOMAIN s}

Obj(r) == [kind |-> "object", v |-> r]
Arr(s) == [kind |-> "array", items |-> s]

\* 'key in payload': a dict key, or an element of a list
Contains(p, k) ==
    IF p.kind = "object" THEN k \in DOMAIN p.v ELSE k \in SeqToSet(p.items)

\* ---- rates ----
ZeroRate == [n |-> 0, w |-> 1]
Rate(n, w) == [n |-> n, w |-> w]
\* rate > threshold, for rate = n / w with w > 0
Exceeds(rate, threshold) == rate.n > threshold * rate.w

RECURSIVE SumBytes(_)
SumBytes(h) ==
    IF h = <<>> THEN 0
    ELSE IF Len(h) = 1 THEN h[1].bytes
    ELSE LET half == Len(h) \div 2
         IN  SumBytes(SubSeq(h, 1, half)) + SumBytes(SubSeq(h, half + 1, Len(h)))

\* ---- configurations and payloads ----
\* Scaled-down rule set of the shape of the default configuration
\* (_load_config): a temporary OR rule followed by a permanent AND rule.
RuleFlood ==
    [name |-> "volumetric_flood", enabled |-> TRUE, logic |-> "OR",
     thresholds |-> [pps |-> 1, bps |-> 2],
     action |-> [type |-> "temporary", duration |-> 1]]

RuleSustained ==
    [name |-> "sustained_attack", enabled |-> TRUE, logic |-> "AND",
     thresholds |-> [pps |-> 0, bps |-> 2],
     action |-> [type |-> "permanent"]]

\* a disabled rule whose threshold any traffic exceeds
RuleProbe ==
    [name |-> "probe", enabled |-> FALSE, logic |-> "OR",
     thresholds |-> [pps |-> 0],
     action |-> [type |-> "permanent"]]

\* 'enabled' and 'logic' left to their defaults
RuleBurst ==
    [name |-> "byte_burst",
     thresholds |-> [bps |-> 2],
     action |-> [type |-> "permanent"]]

\* the configuration read at construction (config file branch of _load_config)
StartConfig ==
    Obj([detection_rules |-> <<RuleFlood, RuleSustained>>, whitelist |-> <<>>,
         monitoring_window |-> 1, check_interval |-> 1])

AltConfig ==
    Obj([detection_rules |-> <<RuleProbe, RuleBurst>>,
         whitelist |-> <<"10.0.0.3">>, monitoring_window |-> 1])

\* a rule that names no action; update_config accepts any rule list
RuleNoAction == [name |-> "no_action", thresholds |-> [pps |-> 0]]

NoActionConfig ==
    Obj([detection_rules |-> <<RuleNoAction>>, whitelist |-> <<>>,
         monitoring_window |-> 1])

EmptyRulesConfig == Obj([detection_rules |-> <<>>, monitoring_window |-> 1])

\* bodies POSTed to /config: valid ones, one without detection_rules, and a
\* JSON list that has the string as an element
Payloads ==
    {AltConfig, EmptyRulesConfig,
     Obj([whitelist |-> <<"10.0.0.5">>]),
     Arr(<<"detection_rules">>)}

\* ---- switch messages ----
DefaultIdleTimeout == 30

FlowAdd(dpid, priority, match, idle_timeout, hard_timeout) ==
    [op |-> "add", dpid |-> dpid, priority |-> priority, match |-> match,
     idle_timeout |-> idle_timeout, hard_timeout |-> hard_timeout]

FlowDelete(dpid, priority, match) ==
    [op |-> "delete", dpid |-> dpid, priority |-> priority, match |-> match]

\* ---- traffic ledger ----
\* the defaultdict factory of traffic_stats, run at time t
NewStats(t) ==
    [packet_count |-> 0, byte_count |-> 0, first_seen |-> t, last_seen |-> t,
     pps |-> ZeroRate, bps |-> ZeroRate, packet_history |-> <<>>]

\* a lookup that always stores a fresh default record
TouchReplace(ts, src_ip, t) == Put(ts, src_ip, NewStats(t))

\* self.traffic_stats[src_ip]: inserts the default record when the key is absent
Touch(ts, src_ip, t) == IF Has(ts, src_ip) THEN ts ELSE Put(ts, src_ip, NewStats(t))

\* deque(maxlen).append
DequeAppend(h, e) ==
    IF Len(h) >= HistoryMaxLen THEN Append(Tail(h), e) ELSE Append(h, e)

\* _calculate_rates counting the entry stamped exactly now - window
calculate_rates_ge(stats, cfg, now) ==
    LET window == Get(cfg.v, "monitoring_window", DefaultWindow)
        cutoff_time == now - window
        recent_packets == SelectSeq(stats.packet_history, LAMBDA p : p.time >= cutoff_time)
    IN  IF recent_packets # <<>>
        THEN [pps |-> IF window > 0 THEN Rate(Len(recent_packets), window) ELSE ZeroRate,
              bps |-> IF window > 0 THEN Rate(SumBytes(recent_packets), window) ELSE ZeroRate]
        ELSE [pps |-> ZeroRate, bps |-> ZeroRate]

\* _calculate_rates on one record
calculate_rates(stats, cfg, now) ==
    LET window == Get(cfg.v, "monitoring_window", DefaultWindow)
        cutoff_time == now - window
        recent_packets == SelectSeq(stats.packet_history, LAMBDA p : p.time > cutoff_time)
    IN  IF recent_packets # <<>>
        THEN [pps |-> IF window > 0 THEN Rate(Len(recent_packets), window) ELSE ZeroRate,
              bps |-> IF window > 0 THEN Rate(SumBytes(recent_packets), window) ELSE ZeroRate]
        ELSE [pps |-> ZeroRate, bps |-> ZeroRate]

\* ---- rule evaluator ----
\* evaluate_rule with >= in place of > (a rate equal to the threshold counts)
evaluate_rule_ge(rule, stats) ==
    LET logic == Get(rule, "logic", "OR")
        thresholds == Get(rule, "thresholds", <<>>)
        ge(rate, threshold) == rate.n >= threshold * rate.w
        conditions_met ==
            (IF "pps" \in DOMAIN thresholds
             THEN <<ge(stats.pps, thresholds.pps)>> ELSE <<>>)
            \o
            (IF "bps" \in DOMAIN thresholds
             THEN <<ge(stats.bps, thresholds.bps)>> ELSE <<>>)
    IN  IF ~Get(rule, "enabled", TRUE) THEN FALSE
        ELSE IF conditions_met = <<>> THEN FALSE
        ELSE IF logic = "AND"
             THEN \A i \in DOMAIN conditions_met : conditions_met[i]
             ELSE \E i \in DOMAIN conditions_met : conditions_met[i]

\* evaluate_rule without the 'enabled' test
evaluate_rule_any(rule, stats) ==
    LET logic == Get(rule, "logic", "OR")
        thresholds == Get(rule, "thresholds", <<>>)
        conditions_met ==
            (IF "pps" \in DOMAIN thresholds
             THEN <<Exceeds(stats.pps, thresholds.pps)>> ELSE <<>>)
            \o
            (IF "bps" \in DOMAIN thresholds
             THEN <<Exceeds(stats.bps, thresholds.bps)>> ELSE <<>>)
    IN  IF conditions_met = <<>> THEN FALSE
        ELSE IF logic = "AND"
             THEN \A i \in DOMAIN conditions_met : conditions_met[i]
             ELSE \E i \in DOMAIN conditions_met : conditions_met[i]

\* _evaluate_rule
evaluate_rule(rule, stats) ==
    LET logic == Get(rule, "logic", "OR")
        thresholds == Get(rule, "thresholds", <<>>)
        conditions_met ==
            (IF "pps" \in DOMAIN thresholds
             THEN <<Exceeds(stats.pps, thresholds.pps)>> ELSE <<>>)
            \o
            (IF "bps" \in DOMAIN thresholds
             THEN <<Exceeds(stats.bps, thresholds.bps)>> ELSE <<>>)
    IN  IF ~Get(rule, "enabled", TRUE) THEN FALSE
        ELSE IF conditions_met = <<>> THEN FALSE
        ELSE IF logic = "AND"
             THEN \A i \in DOMAIN conditions_met : conditions_met[i]
             ELSE \E i \in DOMAIN conditions_met : conditions_met[i]

\* index of the rule the detector's inner loop stops at (0: none triggers)
\* the last matching rule instead of the first
LastMatch(rules, stats) ==
    LET hits == {i \in DOMAIN rules : evaluate_rule(rules[i], stats)}
    IN  IF hits = {} THEN 0 ELSE CHOOSE i \in hits : \A j \in hits : i >= j

\* index of the first rule of the list that evaluates true, 0 if none
FirstMatch(rules, stats) ==
    LET hits == {i \in DOMAIN rules : evaluate_rule(rules[i], stats)}
    IN  IF hits = {} THEN 0 ELSE CHOOSE i \in hits : \A j \in hits : i <= j

\* ---- block registry ----
\* a membership test that never finds the address
InWhitelistNever(src_ip, wl) == FALSE

InWhitelist(src_ip, wl) == src_ip \in wl

HardTimeout(rule) ==
    IF rule.action.type = "permanent" THEN 0
    ELSE Get(rule.action, "duration", DefaultDuration)

\* messages of a loop over self.switches
DropFlows(sw, src_ip, hard_timeout) ==
    [i \in DOMAIN sw |-> FlowAdd(sw[i], DropPriority, src_ip, 0, hard_timeout)]

DeleteFlows(sw, src_ip) ==
    [i \in DOMAIN sw |-> FlowDelete(sw[i], DropPriority, src_ip)]

\* _block_ip without the whitelist test
block_ip_nowl(st, src_ip, rule, t) ==
    IF Has(st.bl, src_ip) THEN [st EXCEPT !.result = "already"]
    ELSE IF switches = <<>> THEN [st EXCEPT !.result = "raised"]
    ELSE LET ts1 == Touch(st.ts, src_ip, t)
             entry == [block_time |-> t, duration |-> HardTimeout(rule),
                       rule |-> rule.name,
                       pps |-> ts1.val[src_ip].pps, bps |-> ts1.val[src_ip].bps]
         IN  [ts |-> ts1,
              bl |-> Put(st.bl, src_ip, entry),
              out |-> st.out \o DropFlows(switches, src_ip, HardTimeout(rule)),
              result |-> "blocked"]

\* _block_ip at time t on st = [ts, bl, out]; result tells how the call ended.
\* With no switch the loop body never runs, hard_timeout is unbound and
\* building the entry raises UnboundLocalError before anything is stored.
\* With a switch, rule['action'] (line 358) raises KeyError for a rule that
\* has no action, in the first turn of the loop and before anything is sent.
block_ip(st, src_ip, rule, t) ==
    IF InWhitelist(src_ip, whitelist) THEN [st EXCEPT !.result = "whitelisted"]
    ELSE IF Has(st.bl, src_ip) THEN [st EXCEPT !.result = "already"]
    ELSE IF switches = <<>> THEN [st EXCEPT !.result = "raised"]
    ELSE IF "action" \notin DOMAIN rule THEN [st EXCEPT !.result = "raised"]
    ELSE LET ts1 == Touch(st.ts, src_ip, t)
             entry == [block_time |-> t, duration |-> HardTimeout(rule),
                       rule |-> rule.name,
                       pps |-> ts1.val[src_ip].pps, bps |-> ts1.val[src_ip].bps]
         IN  [ts |-> ts1,
              bl |-> Put(st.bl, src_ip, entry),
              out |-> st.out \o DropFlows(switches, src_ip, HardTimeout(rule)),
              result |-> "blocked"]

\* _unblock_ip without the membership test
unblock_ip_noguard(st, src_ip) ==
    [ts |-> st.ts,
     bl |-> Del(st.bl, src_ip),
     out |-> st.out \o DeleteFlows(switches, src_ip),
     result |-> TRUE]

\* _unblock_ip that empties the whole registry
unblock_ip_all(st, src_ip) ==
    IF ~Has(st.bl, src_ip) THEN [st EXCEPT !.result = FALSE]
    ELSE [ts |-> st.ts,
          bl |-> EmptyDict,
          out |-> st.out \o DeleteFlows(switches, src_ip),
          result |-> TRUE]

\* _unblock_ip on st = [ts, bl, out]; result is the returned boolean
unblock_ip(st, src_ip) ==
    IF ~Has(st.bl, src_ip) THEN [st EXCEPT !.result = FALSE]
    ELSE [ts |-> st.ts,
          bl |-> Del(st.bl, src_ip),
          out |-> st.out \o DeleteFlows(switches, src_ip),
          result |-> TRUE]

RECURSIVE UnblockEach(_, _)
UnblockEach(ips, st) ==
    IF ips = <<>> THEN st ELSE UnblockEach(Tail(ips), unblock_ip(st, Head(ips)))

\* expiry as soon as the age reaches the duration
ExpiredGe(block_info, now) ==
    block_info.duration > 0 /\ now - block_info.block_time >= block_info.duration

\* expiry without the test for a permanent block
ExpiredAny(block_info, now) ==
    now - block_info.block_time > block_info.duration

\* the expiry test of the detector (temporary block, age above duration)
Expired(block_info, now) ==
    block_info.duration > 0 /\ now - block_info.block_time > block_info.duration


\* ---- threat detector: the loop over the tracked addresses ----
\* Stops where _block_ip raises (the exception leaves the loop for the
\* thread's except clause).
RECURSIVE DetectThreats(_, _, _)
DetectThreats(ips, st, t) ==
    IF ips = <<>> THEN st
    ELSE LET src_ip == Head(ips)
         IN  IF Has(st.bl, src_ip) \/ InWhitelist(src_ip, whitelist)
             THEN DetectThreats(Tail(ips), st, t)
             ELSE LET ts1 == Touch(st.ts, src_ip, t)
                      m == FirstMatch(detection_rules, ts1.val[src_ip])
                      st1 == [st EXCEPT !.ts = ts1]
                  IN  IF m = 0 THEN DetectThreats(Tail(ips), st1, t)
                      ELSE LET r == block_ip(st1, src_ip, detection_rules[m], t)
                           IN  IF r.result = "raised" THEN r
                               ELSE DetectThreats(Tail(ips), r, t)

\* ---- position of a POST /reset request inside reset_all ----
\* Used where reset_all runs statement by statement beside the rest of the
\* controller; idle everywhere else.
ResetIdle == [pc |-> "idle"]

\* ---- positions of the handlers and threads that run statement by statement ----
\* Used where a handler or a thread iteration is interleaved with the rest of
\* the controller; everywhere else no call is in progress and both threads
\* are at the top of their loops.
CallsIdle ==
    [packet_in |-> [pc |-> "idle"], get_stats |-> [pc |-> "idle"],
     update_config |-> [pc |-> "idle"], unblock |-> [pc |-> "idle"],
     stats_thread |-> [pc |-> "sleep"], detector_thread |-> [pc |-> "sleep"]]

\* ---- state after construction (__init__) ----
Init ==
    /\ clock = 0
    /\ switches = <<>>
    /\ traffic_stats = EmptyDict
    /\ blocked_ips = EmptyDict
    /\ config = StartConfig
    /\ detection_rules = Get(StartConfig.v, "detection_rules", <<>>)
    /\ whitelist = SeqToSet(Get(StartConfig.v, "whitelist", <<>>))
    /\ total_packet_count = 0
    /\ total_byte_count = 0
    /\ out = <<>>
    /\ last = [op |-> "init", result |-> "ok"]
    /\ reset_call = ResetIdle
    /\ calls = CallsIdle

\* time passes
Tick ==
    /\ clock < MaxTime
    /\ clock' = clock + 1
    /\ out' = <<>>
    /\ last' = [op |-> "tick", result |-> "ok"]
    /\ UNCHANGED <<calls, reset_call, switches, traffic_stats, blocked_ips, config, detection_rules,
                   whitelist, total_packet_count, total_byte_count>>

\* switch_features_handler: register the switch, install the table-miss flow.
\* Datapath ids are interchangeable labels: dpid n is the n-th switch to
\* connect for the first time, so a new switch takes the next unused id.
SwitchFeatures(dpid) ==
    /\ dpid \in SeqToSet(switches) \/ dpid = Len(switches) + 1
    /\ switches' = IF dpid \in SeqToSet(switches) THEN switches ELSE Append(switches, dpid)
    /\ out' = <<FlowAdd(dpid, 0, "any", DefaultIdleTimeout, 0)>>
    /\ last' = [op |-> "switch_features", result |-> "ok"]
    /\ UNCHANGED <<calls, reset_call, clock, traffic_stats, blocked_ips, config, detection_rules,
                   whitelist, total_packet_count, total_byte_count>>

\* packet_in_handler, statistics part.  Packet-in events are dispatched in
\* MAIN_DISPATCHER state, after the switch's features event.  The clock may
\* advance by d between the two time.time() reads of the update.
\* The model handles at most limit frames, none after time horizon.
PacketInBy(limit, horizon, dpid, ethertype, src_ip, nbytes, d) ==
    /\ dpid \in SeqToSet(switches)
    /\ clock + d <= horizon
    /\ (ethertype = "ip") = (src_ip # NoIp)
    /\ IF ethertype = "lldp"
       THEN /\ d = 0
            /\ UNCHANGED <<clock, traffic_stats, total_packet_count, total_byte_count>>
       ELSE /\ total_packet_count < limit
            /\ total_packet_count' = total_packet_count + 1
            /\ total_byte_count' = total_byte_count + nbytes
            /\ IF src_ip = NoIp
               THEN d = 0 /\ UNCHANGED <<clock, traffic_stats>>
               ELSE LET ts1 == Touch(traffic_stats, src_ip, clock)
                        stats == ts1.val[src_ip]
                    IN  /\ traffic_stats' =
                              Put(ts1, src_ip,
                                  [stats EXCEPT
                                     !.packet_count = @ + 1,
                                     !.byte_count = @ + nbytes,
                                     !.last_seen = clock,
                                     !.packet_history =
                                        DequeAppend(@, [time |-> clock + d, bytes |-> nbytes])])
                        /\ clock' = clock + d
    /\ out' = <<>>
    /\ last' = [op |-> "packet_in", ethertype |-> ethertype, ip |-> src_ip,
                result |-> "ok"]
    /\ UNCHANGED <<calls, reset_call, switches, blocked_ips, config, detection_rules, whitelist>>

PacketInUpTo(limit, dpid, ethertype, src_ip, nbytes, d) ==
    PacketInBy(limit, MaxTime, dpid, ethertype, src_ip, nbytes, d)

PacketIn(dpid, ethertype, src_ip, nbytes, d) ==
    PacketInUpTo(MaxPkts, dpid, ethertype, src_ip, nbytes, d)

\* an inactivity test that is one second late
InactiveLate(stats, now) == now - stats.last_seen > InactiveSeconds + 1

\* the inactivity test of the stats thread
Inactive(stats, now) == now - stats.last_seen > InactiveSeconds

\* one iteration of _stats_updater_thread.  _calculate_rates reads
\* self.config.get: a config that is not a dict raises on the first tracked
\* address and the iteration ends in the except clause.
StatsUpdate ==
    LET now == clock
        raised == traffic_stats.keys # <<>> /\ config.kind # "object"
        refreshed ==
            [ip \in DOMAIN traffic_stats.val |->
                LET r == calculate_rates(traffic_stats.val[ip], config, now)
                IN  [traffic_stats.val[ip] EXCEPT !.pps = r.pps, !.bps = r.bps]]
        active == {ip \in DOMAIN refreshed : ~Inactive(refreshed[ip], now)}
    IN  /\ traffic_stats' =
              IF raised THEN traffic_stats
              ELSE [keys |-> SelectSeq(traffic_stats.keys, LAMBDA ip : ip \in active),
                    val  |-> [ip \in active |-> refreshed[ip]]]
        /\ out' = <<>>
        /\ last' = [op |-> "stats", result |-> IF raised THEN "raised" ELSE "ok"]
        /\ UNCHANGED <<calls, reset_call, clock, switches, blocked_ips, config, detection_rules,
                       whitelist, total_packet_count, total_byte_count>>

\* one iteration of _threat_detector_thread: threat phase, then expiry sweep.
\* self.config.get('check_interval') raises when config is not a dict.
DetectPass ==
    LET now == clock
        st0 == [ts |-> traffic_stats, bl |-> blocked_ips, out |-> <<>>, result |-> "ok"]
        st1 == IF config.kind # "object" THEN [st0 EXCEPT !.result = "raised"]
               ELSE DetectThreats(traffic_stats.keys, st0, clock)
        expired_ips == SelectSeq(st1.bl.keys, LAMBDA ip : Expired(st1.bl.val[ip], now))
        st2 == IF st1.result = "raised" THEN st1 ELSE UnblockEach(expired_ips, st1)
    IN  /\ traffic_stats' = st2.ts
        /\ blocked_ips' = st2.bl
        /\ out' = st2.out
        /\ last' = [op |-> "detect", result |-> IF st1.result = "raised" THEN "raised" ELSE "ok"]
        /\ UNCHANGED <<calls, reset_call, clock, switches, config, detection_rules, whitelist,
                       total_packet_count, total_byte_count>>

\* update_config that stores the payload but keeps the active rule list
UpdateConfigKeepRules(new_config) ==
    LET has_rules == Contains(new_config, "detection_rules")
        is_dict == new_config.kind = "object"
    IN  /\ config' = IF has_rules THEN new_config ELSE config
        /\ detection_rules' = detection_rules
        /\ whitelist' =
              IF has_rules /\ is_dict
              THEN SeqToSet(Get(new_config.v, "whitelist", <<>>)) ELSE whitelist
        /\ out' = <<>>
        /\ last' = [op |-> "update_config", result |-> IF has_rules /\ is_dict THEN "200" ELSE "400"]
        /\ UNCHANGED <<calls, reset_call, clock, switches, traffic_stats, blocked_ips,
                       total_packet_count, total_byte_count>>

\* update_config that adds the payload's whitelist to the live one
UpdateConfigMergeWhitelist(new_config) ==
    LET has_rules == Contains(new_config, "detection_rules")
        is_dict == new_config.kind = "object"
    IN  /\ config' = IF has_rules THEN new_config ELSE config
        /\ detection_rules' =
              IF has_rules /\ is_dict
              THEN Get(new_config.v, "detection_rules", <<>>) ELSE detection_rules
        /\ whitelist' =
              IF has_rules /\ is_dict
              THEN whitelist \cup SeqToSet(Get(new_config.v, "whitelist", <<>>))
              ELSE whitelist
        /\ out' = <<>>
        /\ last' = [op |-> "update_config", result |-> IF has_rules /\ is_dict THEN "200" ELSE "400"]
        /\ UNCHANGED <<calls, reset_call, clock, switches, traffic_stats, blocked_ips,
                       total_packet_count, total_byte_count>>

\* POST /config -> update_config(new_config)
UpdateConfig(new_config) ==
    LET has_rules == Contains(new_config, "detection_rules")
        is_dict == new_config.kind = "object"
    IN  /\ config' = IF has_rules THEN new_config ELSE config
        /\ detection_rules' =
              IF has_rules /\ is_dict
              THEN Get(new_config.v, "detection_rules", <<>>) ELSE detection_rules
        /\ whitelist' =
              IF has_rules /\ is_dict
              THEN SeqToSet(Get(new_config.v, "whitelist", <<>>)) ELSE whitelist
        /\ out' = <<>>
        /\ last' = [op |-> "update_config", result |-> IF has_rules /\ is_dict THEN "200" ELSE "400"]
        /\ UNCHANGED <<calls, reset_call, clock, switches, traffic_stats, blocked_ips,
                       total_packet_count, total_byte_count>>

\* POST /unblock/{src_ip}
UnblockIp(src_ip) ==
    LET st == unblock_ip([ts |-> traffic_stats, bl |-> blocked_ips,
                          out |-> <<>>, result |-> FALSE], src_ip)
    IN  /\ blocked_ips' = st.bl
        /\ out' = st.out
        /\ last' = [op |-> "unblock", ip |-> src_ip,
                    result |-> IF st.result THEN "200" ELSE "400"]
        /\ UNCHANGED <<calls, reset_call, clock, switches, traffic_stats, config, detection_rules,
                       whitelist, total_packet_count, total_byte_count>>

\* GET /whitelist: list(self.whitelist), the elements of the set in some order
get_whitelist(wl) == {s \in [1..Cardinality(wl) -> wl] : SeqToSet(s) = wl}

\* a POST /whitelist that also lifts the block of the address
AddWhitelistUnblocking(ip) ==
    LET st == unblock_ip([ts |-> traffic_stats, bl |-> blocked_ips,
                          out |-> <<>>, result |-> FALSE], ip)
    IN  /\ whitelist' = IF ip = NoIp THEN whitelist ELSE whitelist \cup {ip}
        /\ blocked_ips' = IF ip = NoIp THEN blocked_ips ELSE st.bl
        /\ out' = IF ip = NoIp THEN <<>> ELSE st.out
        /\ last' = [op |-> "add_whitelist", ip |-> ip,
                    result |-> IF ip = NoIp THEN "400" ELSE "200"]
        /\ UNCHANGED <<calls, reset_call, clock, switches, traffic_stats, config,
                       detection_rules, total_packet_count, total_byte_count>>

\* POST /whitelist with body {"ip": ip}; NoIp stands for a body without 'ip'
AddWhitelist(ip) ==
    /\ whitelist' = IF ip = NoIp THEN whitelist ELSE whitelist \cup {ip}
    /\ out' = <<>>
    /\ last' = [op |-> "add_whitelist", ip |-> ip,
                result |-> IF ip = NoIp THEN "400" ELSE "200"]
    /\ UNCHANGED <<calls, reset_call, clock, switches, traffic_stats, blocked_ips, config,
                   detection_rules, total_packet_count, total_byte_count>>

\* POST /reset
ResetAll ==
    LET st == UnblockEach(blocked_ips.keys,
                          [ts |-> traffic_stats, bl |-> blocked_ips,
                           out |-> <<>>, result |-> FALSE])
    IN  /\ blocked_ips' = st.bl
        /\ traffic_stats' = EmptyDict
        /\ total_packet_count' = 0
        /\ total_byte_count' = 0
        /\ out' = st.out
        /\ last' = [op |-> "reset", result |-> "200"]
        /\ UNCHANGED <<calls, reset_call, clock, switches, config, detection_rules, whitelist>>

Next ==
    \/ Tick
    \/ \E dpid \in Dpids : SwitchFeatures(dpid)
    \/ \E dpid \in Dpids, ethertype \in EtherTypes, src_ip \in Addrs \cup {NoIp},
          nbytes \in PktSizes, d \in ClockSkews :
          PacketIn(dpid, ethertype, src_ip, nbytes, d)
    \/ StatsUpdate
    \/ DetectPass
    \/ \E new_config \in Payloads : UpdateConfig(new_config)
    \/ \E src_ip \in Addrs : UnblockIp(src_ip)
    \/ \E ip \in WhitelistIps \cup {NoIp} : AddWhitelist(ip)
    \/ ResetAll

Spec == Init /\ [][Next]_vars

\* ---- direct calls of the controller's methods ----
\* rules handed to a direct call
CallRules == {RuleFlood, RuleSustained}

\* _block_ip(src_ip, rule) called on the controller as it stands
CallBlockIp(src_ip, rule) ==
    LET st == block_ip([ts |-> traffic_stats, bl |-> blocked_ips,
                        out |-> <<>>, result |-> "ok"], src_ip, rule, clock)
    IN  /\ traffic_stats' = st.ts
        /\ blocked_ips' = st.bl
        /\ out' = st.out
        /\ last' = [op |-> "block_ip", ip |-> src_ip, result |-> st.result]
        /\ UNCHANGED <<calls, reset_call, clock, switches, config, detection_rules, whitelist,
                       total_packet_count, total_byte_count>>

\* A harness for _block_ip: the controller is brought to a state by its own
\* events (switches connect, packets arrive, rates are refreshed, addresses
\* are whitelisted) and _block_ip is called on it directly.
NextCall ==
    \/ Tick
    \/ \E dpid \in Dpids : SwitchFeatures(dpid)
    \/ \E dpid \in Dpids, src_ip \in Addrs, nbytes \in PktSizes :
          PacketIn(dpid, "ip", src_ip, nbytes, 0)
    \/ StatsUpdate
    \/ \E ip \in WhitelistIps : AddWhitelist(ip)
    \/ \E src_ip \in Addrs, rule \in CallRules : CallBlockIp(src_ip, rule)

SpecCall == Init /\ [][NextCall]_vars

\* A harness for the unblock API: addresses are blocked by direct calls of
\* _block_ip under either rule (temporary, permanent), several at a time,
\* and unblocked through the API.
NextUnblock ==
    \/ Tick
    \/ \E dpid \in Dpids : SwitchFeatures(dpid)
    \/ \E src_ip \in Addrs, rule \in CallRules : CallBlockIp(src_ip, rule)
    \/ \E src_ip \in Addrs : UnblockIp(src_ip)

SpecUnblock == Init /\ [][NextUnblock]_vars

\* ---- sends that fail ----
\* datapath.send_msg belongs to the switch-control library.  Its result is
\* not read (lines 284, 404) and no call is wrapped in try/except, so a send
\* that fails by returning a failure value goes unnoticed ("dropped") and a
\* send that fails by raising ends the method at that statement ("raises").
SendFailures == {"dropped", "raises"}

\* the messages of msgs before position k, and all but the one at k
Before(msgs, k) == SubSeq(msgs, 1, k - 1)
Without(msgs, k) == SubSeq(msgs, 1, k - 1) \o SubSeq(msgs, k + 1, Len(msgs))

\* position of switch dpid in the iteration order of self.switches
PositionOf(sw, dpid) == CHOOSE i \in DOMAIN sw : sw[i] = dpid

\* _block_ip(src_ip, rule) reaching the switch loop, the send to switch dpid
\* failing
CallBlockIpSendFail(src_ip, rule, dpid, how) ==
    /\ ~InWhitelist(src_ip, whitelist)
    /\ ~Has(blocked_ips, src_ip)
    /\ dpid \in SeqToSet(switches)
    /\ LET k == PositionOf(switches, dpid)
           st == block_ip([ts |-> traffic_stats, bl |-> blocked_ips,
                           out |-> <<>>, result |-> "ok"], src_ip, rule, clock)
       IN  IF how = "raises"
           THEN /\ out' = Before(st.out, k)
                /\ UNCHANGED <<traffic_stats, blocked_ips>>
           ELSE /\ out' = Without(st.out, k)
                /\ traffic_stats' = st.ts
                /\ blocked_ips' = st.bl
    /\ last' = [op |-> "block_ip_sendfail", ip |-> src_ip, how |-> how,
                result |-> IF how = "raises" THEN "raised" ELSE "blocked"]
    /\ UNCHANGED <<calls, reset_call, clock, switches, config, detection_rules, whitelist,
                   total_packet_count, total_byte_count>>

\* POST /unblock/{src_ip} for a blocked address, the send to switch dpid
\* failing
UnblockIpSendFail(src_ip, dpid, how) ==
    /\ Has(blocked_ips, src_ip)
    /\ dpid \in SeqToSet(switches)
    /\ LET k == PositionOf(switches, dpid)
           st == unblock_ip([ts |-> traffic_stats, bl |-> blocked_ips,
                             out |-> <<>>, result |-> FALSE], src_ip)
       IN  IF how = "raises"
           THEN /\ out' = Before(st.out, k)
                /\ UNCHANGED blocked_ips
           ELSE /\ out' = Without(st.out, k)
                /\ blocked_ips' = st.bl
    /\ last' = [op |-> "unblock_sendfail", ip |-> src_ip, how |-> how,
                result |-> IF how = "raises" THEN "500" ELSE "200"]
    /\ UNCHANGED <<calls, reset_call, clock, switches, traffic_stats, config, detection_rules,
                   whitelist, total_packet_count, total_byte_count>>

\* A harness for enforcement errors: blocks and unblocks by direct call and
\* through the API, where any one send may fail.
NextEnforce ==
    \/ Tick
    \/ \E dpid \in Dpids : SwitchFeatures(dpid)
    \/ \E src_ip \in Addrs, rule \in CallRules : CallBlockIp(src_ip, rule)
    \/ \E src_ip \in Addrs : UnblockIp(src_ip)
    \/ \E src_ip \in Addrs, rule \in CallRules, dpid \in Dpids,
          how \in SendFailures : CallBlockIpSendFail(src_ip, rule, dpid, how)
    \/ \E src_ip \in Addrs, dpid \in Dpids, how \in SendFailures :
          UnblockIpSendFail(src_ip, dpid, how)

SpecEnforce == Init /\ [][NextEnforce]_vars

\* A long quiet period: the clock advances by d seconds while nothing else
\* happens (both threads asleep, no packet, no request).
MaxIdle == 122
IdleGaps == {InactiveSeconds, InactiveSeconds + 1}
Sleep(d) ==
    /\ clock + d <= MaxIdle
    /\ clock' = clock + d
    /\ out' = <<>>
    /\ last' = [op |-> "sleep", result |-> "ok"]
    /\ UNCHANGED <<calls, reset_call, switches, traffic_stats, blocked_ips, config, detection_rules,
                   whitelist, total_packet_count, total_byte_count>>

\* The controller over long periods: traffic arrives early, the rule list
\* may be replaced, then the two threads run between quiet periods.
NextIdle ==
    \/ Tick
    \/ \E d \in IdleGaps : Sleep(d)
    \/ \E dpid \in Dpids : SwitchFeatures(dpid)
    \/ \E dpid \in Dpids, src_ip \in Addrs, nbytes \in PktSizes :
          PacketIn(dpid, "ip", src_ip, nbytes, 0)
    \/ StatsUpdate
    \/ DetectPass
    \/ UpdateConfig(AltConfig)

SpecIdle == Init /\ [][NextIdle]_vars

\* ---- a packet flood under the built-in configuration ----
\* the fallback configuration of _load_config, with its own numbers
DefaultRuleFlood ==
    [name |-> "volumetric_flood", enabled |-> TRUE, logic |-> "OR",
     thresholds |-> [pps |-> 1000, bps |-> 10485760],
     action |-> [type |-> "temporary", duration |-> 300]]

DefaultRuleSustained ==
    [name |-> "sustained_attack", enabled |-> TRUE, logic |-> "AND",
     thresholds |-> [pps |-> 500, bps |-> 5242880],
     action |-> [type |-> "permanent"]]

DefaultConfig ==
    Obj([detection_rules |-> <<DefaultRuleFlood, DefaultRuleSustained>>,
         whitelist |-> <<>>, monitoring_window |-> 10, check_interval |-> 5])

InitFlood ==
    /\ clock = 0
    /\ switches = <<>>
    /\ traffic_stats = EmptyDict
    /\ blocked_ips = EmptyDict
    /\ config = DefaultConfig
    /\ detection_rules = Get(DefaultConfig.v, "detection_rules", <<>>)
    /\ whitelist = SeqToSet(Get(DefaultConfig.v, "whitelist", <<>>))
    /\ total_packet_count = 0
    /\ total_byte_count = 0
    /\ out = <<>>
    /\ last = [op |-> "init", result |-> "ok"]
    /\ reset_call = ResetIdle
    /\ calls = CallsIdle

\* the flooding address, packets of one burst, frame size
MaxFlood == 10002
FloodAddrs == {"10.0.0.5"}
BurstSizes == {5001, 10001}
FrameSizes == {64}

\* a bounded history that drops the newest entries on overflow
DequeExtendKeepOldest(h, more) ==
    LET all == h \o more
    IN  IF Len(all) > HistoryMaxLen THEN SubSeq(all, 1, HistoryMaxLen) ELSE all

\* a deque(maxlen) after appending the entries of more: the newest
\* HistoryMaxLen entries are kept
DequeExtend(h, more) ==
    LET all == h \o more
    IN  IF Len(all) > HistoryMaxLen
        THEN SubSeq(all, Len(all) - HistoryMaxLen + 1, Len(all)) ELSE all

\* packet_in_handler run n times within the current second for IPv4 frames
\* of nbytes bytes from src_ip
PacketBurst(dpid, src_ip, nbytes, n) ==
    /\ dpid \in SeqToSet(switches)
    /\ total_packet_count + n <= MaxFlood
    /\ total_packet_count' = total_packet_count + n
    /\ total_byte_count' = total_byte_count + n * nbytes
    /\ LET ts1 == Touch(traffic_stats, src_ip, clock)
           stats == ts1.val[src_ip]
       IN  traffic_stats' =
              Put(ts1, src_ip,
                  [stats EXCEPT
                     !.packet_count = @ + n,
                     !.byte_count = @ + n * nbytes,
                     !.last_seen = clock,
                     !.packet_history =
                        DequeExtend(@, [i \in 1..n |-> [time |-> clock, bytes |-> nbytes]])])
    /\ out' = <<>>
    /\ last' = [op |-> "packet_burst", result |-> "ok"]
    /\ UNCHANGED <<calls, reset_call, clock, switches, blocked_ips, config,
                   detection_rules, whitelist>>

NextFlood ==
    \/ Tick
    \/ \E dpid \in Dpids : SwitchFeatures(dpid)
    \/ \E dpid \in Dpids, src_ip \in FloodAddrs, nbytes \in FrameSizes,
          n \in BurstSizes : PacketBurst(dpid, src_ip, nbytes, n)
    \/ StatsUpdate
    \/ DetectPass

SpecFlood == InitFlood /\ [][NextFlood]_vars

\* ---- reset_all statement by statement ----
\* The handler takes no lock and the two threads are plain threading.Thread
\* objects, so a thread iteration or a packet-in may run between any two
\* statements of reset_all.

\* line 666: the list of blocked addresses is copied
ResetBegin ==
    /\ reset_call.pc = "idle"
    /\ reset_call' = [pc |-> "unblock", ips |-> blocked_ips.keys]
    /\ out' = <<>>
    /\ last' = [op |-> "reset_step", result |-> "ok"]
    /\ UNCHANGED <<calls, clock, switches, traffic_stats, blocked_ips, config,
                   detection_rules, whitelist, total_packet_count, total_byte_count>>

\* line 667: _unblock_ip for the next address of the copy
ResetUnblockNext ==
    /\ reset_call.pc = "unblock"
    /\ reset_call.ips # <<>>
    /\ LET st == unblock_ip([ts |-> traffic_stats, bl |-> blocked_ips,
                             out |-> <<>>, result |-> FALSE], Head(reset_call.ips))
       IN  /\ blocked_ips' = st.bl
           /\ out' = st.out
    /\ reset_call' = [reset_call EXCEPT !.ips = Tail(@)]
    /\ last' = [op |-> "reset_step", result |-> "ok"]
    /\ UNCHANGED <<calls, clock, switches, traffic_stats, config, detection_rules,
                   whitelist, total_packet_count, total_byte_count>>

\* line 670: traffic_stats.clear()
ResetClear ==
    /\ reset_call.pc = "unblock"
    /\ reset_call.ips = <<>>
    /\ traffic_stats' = EmptyDict
    /\ reset_call' = [pc |-> "packets"]
    /\ out' = <<>>
    /\ last' = [op |-> "reset_step", result |-> "ok"]
    /\ UNCHANGED <<calls, clock, switches, blocked_ips, config, detection_rules,
                   whitelist, total_packet_count, total_byte_count>>

\* line 671: total_packet_count = 0
ResetPackets ==
    /\ reset_call.pc = "packets"
    /\ total_packet_count' = 0
    /\ reset_call' = [pc |-> "bytes"]
    /\ out' = <<>>
    /\ last' = [op |-> "reset_step", result |-> "ok"]
    /\ UNCHANGED <<calls, clock, switches, traffic_stats, blocked_ips, config,
                   detection_rules, whitelist, total_byte_count>>

\* lines 672-678: total_byte_count = 0, then the success response
ResetReturn ==
    /\ reset_call.pc = "bytes"
    /\ total_byte_count' = 0
    /\ reset_call' = ResetIdle
    /\ out' = <<>>
    /\ last' = [op |-> "reset", result |-> "200"]
    /\ UNCHANGED <<calls, clock, switches, traffic_stats, blocked_ips, config,
                   detection_rules, whitelist, total_packet_count>>

\* reset_all beside packet ingestion and the two threads
NextRace ==
    \/ Tick
    \/ \E dpid \in Dpids : SwitchFeatures(dpid)
    \/ \E dpid \in Dpids, src_ip \in Addrs, nbytes \in PktSizes :
          PacketIn(dpid, "ip", src_ip, nbytes, 0)
    \/ StatsUpdate
    \/ DetectPass
    \/ ResetBegin
    \/ ResetUnblockNext
    \/ ResetClear
    \/ ResetPackets
    \/ ResetReturn

SpecRace == Init /\ [][NextRace]_vars

\* ---- the two background threads statement by statement ----
\* Each thread is `while True: try: <iteration> except Exception: log`.
\* A position is "sleep" (top of the loop, inside the try), a point of the
\* iteration body, or "except" (the handler of the except clause, which
\* remembers at which position the exception was raised).

\* an except clause that ends the thread instead of looping
AfterExceptEnds(thread) == [pc |-> "ended"]

\* where the except clause leaves the thread: the next turn of `while True`
AfterExcept(thread) == [pc |-> "sleep"]

Threads == {"stats_thread", "detector_thread"}

\* an exception raised at the thread's current point of the iteration:
\* control passes to the except clause, what was done so far stays done
ThreadFault(thread) ==
    /\ calls[thread].pc \notin {"except", "ended"}
    /\ calls' = [calls EXCEPT ![thread] = [pc |-> "except", at |-> calls[thread].pc]]
    /\ out' = <<>>
    /\ last' = [op |-> "fault", thread |-> thread, result |-> "raised"]
    /\ UNCHANGED <<reset_call, clock, switches, traffic_stats, blocked_ips, config,
                   detection_rules, whitelist, total_packet_count, total_byte_count>>

\* the except clause: the error is logged and the loop goes on
ThreadExcept(thread) ==
    /\ calls[thread].pc = "except"
    /\ calls' = [calls EXCEPT ![thread] = AfterExcept(thread)]
    /\ out' = <<>>
    /\ last' = [op |-> "except", thread |-> thread, at |-> calls[thread].at,
                result |-> "ok"]
    /\ UNCHANGED <<reset_call, clock, switches, traffic_stats, blocked_ips, config,
                   detection_rules, whitelist, total_packet_count, total_byte_count>>

\* _stats_updater_thread, lines 414-419: sleep, read the time, copy the keys
StatsWake ==
    /\ calls.stats_thread.pc = "sleep"
    /\ calls' = [calls EXCEPT !.stats_thread =
                    [pc |-> "scan", now |-> clock, keys |-> traffic_stats.keys,
                     inactive_ips |-> <<>>]]
    /\ out' = <<>>
    /\ last' = [op |-> "stats_step", result |-> "ok"]
    /\ UNCHANGED <<reset_call, clock, switches, traffic_stats, blocked_ips, config,
                   detection_rules, whitelist, total_packet_count, total_byte_count>>

\* lines 420-429 for the next key of the copy: the record is looked up (the
\* defaultdict inserts it when it is gone), its rates are recomputed and
\* stored, and it is noted when inactive.  _calculate_rates raises when the
\* configuration is not a dict.
StatsVisit ==
    LET self == calls.stats_thread
    IN  /\ self.pc = "scan"
        /\ self.keys # <<>>
        /\ LET src_ip == Head(self.keys)
               ts1 == Touch(traffic_stats, src_ip, clock)
               r == calculate_rates(ts1.val[src_ip], config, clock)
               stats == [ts1.val[src_ip] EXCEPT !.pps = r.pps, !.bps = r.bps]
           IN  IF config.kind # "object"
               THEN /\ traffic_stats' = ts1
                    /\ calls' = [calls EXCEPT !.stats_thread = [pc |-> "except", at |-> "scan"]]
                    /\ last' = [op |-> "stats_step", result |-> "raised"]
               ELSE /\ traffic_stats' = Put(ts1, src_ip, stats)
                    /\ calls' = [calls EXCEPT !.stats_thread =
                                    [self EXCEPT
                                       !.keys = Tail(@),
                                       !.inactive_ips =
                                          IF Inactive(stats, self.now)
                                          THEN Append(@, src_ip) ELSE @]]
                    /\ last' = [op |-> "stats_step", result |-> "ok"]
        /\ out' = <<>>
        /\ UNCHANGED <<reset_call, clock, switches, blocked_ips, config,
                       detection_rules, whitelist, total_packet_count, total_byte_count>>

\* lines 432-433 for the next inactive address: del raises KeyError when the
\* record is gone
StatsDelete ==
    LET self == calls.stats_thread
    IN  /\ self.pc = "scan"
        /\ self.keys = <<>>
        /\ self.inactive_ips # <<>>
        /\ LET ip == Head(self.inactive_ips)
           IN  IF Has(traffic_stats, ip)
               THEN /\ traffic_stats' = Del(traffic_stats, ip)
                    /\ calls' = [calls EXCEPT !.stats_thread.inactive_ips = Tail(@)]
                    /\ last' = [op |-> "stats_step", result |-> "ok"]
               ELSE /\ traffic_stats' = traffic_stats
                    /\ calls' = [calls EXCEPT !.stats_thread = [pc |-> "except", at |-> "scan"]]
                    /\ last' = [op |-> "stats_step", result |-> "raised"]
        /\ out' = <<>>
        /\ UNCHANGED <<reset_call, clock, switches, blocked_ips, config,
                       detection_rules, whitelist, total_packet_count, total_byte_count>>

\* end of the try body: back to the top of the loop
StatsLoop ==
    LET self == calls.stats_thread
    IN  /\ self.pc = "scan"
        /\ self.keys = <<>>
        /\ self.inactive_ips = <<>>
        /\ calls' = [calls EXCEPT !.stats_thread = [pc |-> "sleep"]]
        /\ out' = <<>>
        /\ last' = [op |-> "stats", result |-> "ok"]
        /\ UNCHANGED <<reset_call, clock, switches, traffic_stats, blocked_ips, config,
                       detection_rules, whitelist, total_packet_count, total_byte_count>>

\* _threat_detector_thread, lines 442-448: config.get (raises when the
\* configuration is not a dict), sleep, read the time, copy the keys
DetectWake ==
    /\ calls.detector_thread.pc = "sleep"
    /\ calls' = [calls EXCEPT !.detector_thread =
                    IF config.kind # "object" THEN [pc |-> "except", at |-> "sleep"]
                    ELSE [pc |-> "threats", now |-> clock, keys |-> traffic_stats.keys,
                          read |-> <<>>]]
    /\ out' = <<>>
    /\ last' = [op |-> "detect_step",
                result |-> IF config.kind # "object" THEN "raised" ELSE "ok"]
    /\ UNCHANGED <<reset_call, clock, switches, traffic_stats, blocked_ips, config,
                   detection_rules, whitelist, total_packet_count, total_byte_count>>

\* what one turn of the detector's loop reads of the configuration: nothing
\* for a blocked address (line 450), the whitelist for a whitelisted one
\* (line 454), the whitelist and the rule list otherwise (line 460)
ReadOf(src_ip) ==
    IF Has(blocked_ips, src_ip) THEN <<>>
    ELSE IF InWhitelist(src_ip, whitelist) THEN <<[whitelist |-> whitelist]>>
    ELSE <<[whitelist |-> whitelist, rules |-> detection_rules]>>

\* lines 449-463 for the next key of the copy, with the rule list and the
\* whitelist as they are at this moment; read keeps what the turns of this
\* pass have read
DetectVisit ==
    LET self == calls.detector_thread
    IN  /\ self.pc = "threats"
        /\ self.keys # <<>>
        /\ LET st == DetectThreats(<<Head(self.keys)>>,
                                   [ts |-> traffic_stats, bl |-> blocked_ips,
                                    out |-> <<>>, result |-> "ok"], clock)
           IN  /\ traffic_stats' = st.ts
               /\ blocked_ips' = st.bl
               /\ out' = st.out
               /\ calls' = [calls EXCEPT !.detector_thread =
                               IF st.result = "raised" THEN [pc |-> "except", at |-> "threats"]
                               ELSE [self EXCEPT
                                       !.keys = Tail(@),
                                       !.read = @ \o ReadOf(Head(self.keys))]]
               /\ last' = [op |-> "detect_step", ip |-> Head(self.keys),
                           result |-> IF st.result = "raised" THEN "raised" ELSE "ok"]
        /\ UNCHANGED <<reset_call, clock, switches, config, detection_rules, whitelist,
                       total_packet_count, total_byte_count>>

\* lines 466-471: the expired entries of the registry are collected
DetectSweep ==
    LET self == calls.detector_thread
    IN  /\ self.pc = "threats"
        /\ self.keys = <<>>
        /\ calls' = [calls EXCEPT !.detector_thread =
                        [pc |-> "unblock",
                         expired_ips |->
                            SelectSeq(blocked_ips.keys,
                                      LAMBDA ip : Expired(blocked_ips.val[ip], self.now))]]
        /\ out' = <<>>
        /\ last' = [op |-> "detect_step", ip |-> NoIp, result |-> "ok"]
        /\ UNCHANGED <<reset_call, clock, switches, traffic_stats, blocked_ips, config,
                       detection_rules, whitelist, total_packet_count, total_byte_count>>

\* lines 474-475 for the next expired address
DetectUnblockNext ==
    LET self == calls.detector_thread
    IN  /\ self.pc = "unblock"
        /\ self.expired_ips # <<>>
        /\ LET st == unblock_ip([ts |-> traffic_stats, bl |-> blocked_ips,
                                 out |-> <<>>, result |-> FALSE], Head(self.expired_ips))
           IN  /\ blocked_ips' = st.bl
               /\ out' = st.out
        /\ calls' = [calls EXCEPT !.detector_thread.expired_ips = Tail(@)]
        /\ last' = [op |-> "detect_step", ip |-> NoIp, result |-> "ok"]
        /\ UNCHANGED <<reset_call, clock, switches, traffic_stats, config, detection_rules,
                       whitelist, total_packet_count, total_byte_count>>

\* end of the try body: back to the top of the loop
DetectLoop ==
    LET self == calls.detector_thread
    IN  /\ self.pc = "unblock"
        /\ self.expired_ips = <<>>
        /\ calls' = [calls EXCEPT !.detector_thread = [pc |-> "sleep"]]
        /\ out' = <<>>
        /\ last' = [op |-> "detect", result |-> "ok"]
        /\ UNCHANGED <<reset_call, clock, switches, traffic_stats, blocked_ips, config,
                       detection_rules, whitelist, total_packet_count, total_byte_count>>

\* the steps of each thread
StatsThread ==
    StatsWake \/ StatsVisit \/ StatsDelete \/ StatsLoop \/ ThreadExcept("stats_thread")

DetectorThread ==
    \/ DetectWake
    \/ DetectVisit
    \/ DetectSweep
    \/ DetectUnblockNext
    \/ DetectLoop
    \/ ThreadExcept("detector_thread")

\* The two threads beside one switch, packets from one address, quiet
\* periods long enough for blocks to expire and records to go inactive, and
\* a configuration update that leaves a configuration on which both threads
\* raise; an exception may also strike at any point of an iteration.
NextThreads ==
    \/ Sleep(InactiveSeconds + 2)
    \/ SwitchFeatures(1)
    \/ \E nbytes \in PktSizes : PacketIn(1, "ip", "10.0.0.3", nbytes, 0)
    \/ UpdateConfig(Arr(<<"detection_rules">>))
    \/ StatsThread
    \/ DetectorThread
    \/ \E thread \in Threads : ThreadFault(thread)

\* each thread is scheduled again and again
SpecThreads ==
    Init /\ [][NextThreads]_vars /\ WF_vars(StatsThread) /\ WF_vars(DetectorThread)

\* ---- packet_in_handler and GET /stats statement by statement ----
\* No handler takes a lock, so the statements of the ledger update and the
\* steps of the listing's loop may alternate with each other, with an
\* iteration of the stats thread and with a reset.

\* packet_in_handler for an IPv4 frame, lines 213-231: the cumulative
\* counters, the lookup of the record (inserted when absent) and its packet
\* count
PacketInBegin(dpid, src_ip, nbytes) ==
    /\ calls.packet_in.pc = "idle"
    /\ dpid \in SeqToSet(switches)
    /\ total_packet_count < MaxPkts
    /\ total_packet_count' = total_packet_count + 1
    /\ total_byte_count' = total_byte_count + nbytes
    /\ LET ts1 == Touch(traffic_stats, src_ip, clock)
       IN  traffic_stats' = [ts1 EXCEPT !.val[src_ip].packet_count = @ + 1]
    /\ calls' = [calls EXCEPT !.packet_in =
                    [pc |-> "bytes", src_ip |-> src_ip, nbytes |-> nbytes]]
    /\ out' = <<>>
    /\ last' = [op |-> "packet_in_step", result |-> "ok"]
    /\ UNCHANGED <<reset_call, clock, switches, blocked_ips, config,
                   detection_rules, whitelist>>

\* the statements that follow write through the reference `stats` taken at
\* line 230: when the record has left the ledger meanwhile they reach an
\* object the ledger no longer holds
PacketInWrite(pc, next, stats) ==
    LET self == calls.packet_in
    IN  /\ self.pc = pc
        /\ traffic_stats' =
              IF Has(traffic_stats, self.src_ip)
              THEN Put(traffic_stats, self.src_ip, stats)
              ELSE traffic_stats
        /\ calls' = [calls EXCEPT !.packet_in =
                        IF next = "idle" THEN [pc |-> "idle"] ELSE [self EXCEPT !.pc = next]]
        /\ out' = <<>>
        /\ last' = [op |-> IF next = "idle" THEN "packet_in" ELSE "packet_in_step",
                    result |-> "ok"]
        /\ UNCHANGED <<reset_call, clock, switches, blocked_ips, config,
                       detection_rules, whitelist, total_packet_count, total_byte_count>>

\* the record the call writes to (a fresh one stands for the orphaned object)
PacketInStats ==
    IF Has(traffic_stats, calls.packet_in.src_ip)
    THEN traffic_stats.val[calls.packet_in.src_ip] ELSE NewStats(clock)

\* line 232
PacketInBytes ==
    PacketInWrite("bytes", "seen",
                  [PacketInStats EXCEPT !.byte_count = @ + calls.packet_in.nbytes])

\* line 233
PacketInSeen ==
    PacketInWrite("seen", "history", [PacketInStats EXCEPT !.last_seen = clock])

\* lines 234-237
PacketInHistory ==
    PacketInWrite("history", "idle",
                  [PacketInStats EXCEPT
                     !.packet_history =
                        DequeAppend(@, [time |-> clock, bytes |-> calls.packet_in.nbytes])])

\* GET /stats -> get_stats_summary, line 502: the loop over
\* traffic_stats.items() starts on the live dict
ListBegin ==
    /\ calls.get_stats.pc = "idle"
    /\ calls' = [calls EXCEPT !.get_stats =
                    [pc |-> "items", keys |-> traffic_stats.keys, pos |-> 0,
                     summary |-> <<>>]]
    /\ out' = <<>>
    /\ last' = [op |-> "get_stats_step", result |-> "ok"]
    /\ UNCHANGED <<reset_call, clock, switches, traffic_stats, blocked_ips, config,
                   detection_rules, whitelist, total_packet_count, total_byte_count>>

\* one entry of the listing (the rounded rates and the formatted timestamps
\* of lines 507-510 are read by no property and left out)
SummaryEntry(src_ip, stats) ==
    [source_ip |-> src_ip, packet_count |-> stats.packet_count,
     byte_count |-> stats.byte_count, blocked |-> Has(blocked_ips, src_ip)]

\* One turn of the loop, lines 502-512.  The dict iterator raises
\* RuntimeError when the dict has changed size since the loop started
\* (get_stats then answers 500, line 616); when the keys have changed at
\* equal size it raises or goes on, as the dict's layout decides (raises
\* tells which).  At the end of the dict the summary is returned.
ListNext(raises) ==
    LET self == calls.get_stats
        keys == traffic_stats.keys
        fails == Len(keys) # Len(self.keys) \/ (keys # self.keys /\ raises)
    IN  /\ self.pc = "items"
        /\ raises => keys # self.keys
        /\ IF fails
           THEN /\ calls' = [calls EXCEPT !.get_stats = [pc |-> "idle"]]
                /\ last' = [op |-> "get_stats", result |-> "500", body |-> <<>>]
           ELSE IF self.pos >= Len(keys)
           THEN /\ calls' = [calls EXCEPT !.get_stats = [pc |-> "idle"]]
                /\ last' = [op |-> "get_stats", result |-> "200", body |-> self.summary]
           ELSE /\ calls' = [calls EXCEPT !.get_stats =
                               [self EXCEPT
                                  !.pos = @ + 1,
                                  !.summary =
                                     Append(@, SummaryEntry(keys[self.pos + 1],
                                               traffic_stats.val[keys[self.pos + 1]]))]]
                /\ last' = [op |-> "get_stats_step", result |-> "ok"]
        /\ out' = <<>>
        /\ UNCHANGED <<reset_call, clock, switches, traffic_stats, blocked_ips, config,
                       detection_rules, whitelist, total_packet_count, total_byte_count>>

\* the listing beside packet ingestion, the stats thread (rate refresh and
\* eviction) and reset
NextReport ==
    \/ Sleep(InactiveSeconds + 1)
    \/ \E dpid \in Dpids : SwitchFeatures(dpid)
    \/ \E dpid \in Dpids, src_ip \in Addrs, nbytes \in PktSizes :
          PacketInBegin(dpid, src_ip, nbytes)
    \/ PacketInBytes
    \/ PacketInSeen
    \/ PacketInHistory
    \/ StatsUpdate
    \/ ResetAll
    \/ ListBegin
    \/ \E raises \in BOOLEAN : ListNext(raises)

SpecReport == Init /\ [][NextReport]_vars

\* ---- update_config statement by statement beside the detector ----
\* update_config, lines 484-488: the membership test, then self.config
ConfigBegin(new_config) ==
    /\ calls.update_config.pc = "idle"
    /\ IF Contains(new_config, "detection_rules")
       THEN /\ config' = new_config
            /\ calls' = [calls EXCEPT !.update_config =
                            [pc |-> "rules", new_config |-> new_config]]
            /\ last' = [op |-> "update_config_step", result |-> "ok"]
       ELSE /\ UNCHANGED <<config, calls>>
            /\ last' = [op |-> "update_config", result |-> "400"]
    /\ out' = <<>>
    /\ UNCHANGED <<reset_call, clock, switches, traffic_stats, blocked_ips,
                   detection_rules, whitelist, total_packet_count, total_byte_count>>

\* line 489: self.detection_rules; new_config.get raises on a list and the
\* call reports failure (lines 495-497)
ConfigRules ==
    LET self == calls.update_config
    IN  /\ self.pc = "rules"
        /\ IF self.new_config.kind = "object"
           THEN /\ detection_rules' = Get(self.new_config.v, "detection_rules", <<>>)
                /\ calls' = [calls EXCEPT !.update_config.pc = "whitelist"]
                /\ last' = [op |-> "update_config_step", result |-> "ok"]
           ELSE /\ UNCHANGED detection_rules
                /\ calls' = [calls EXCEPT !.update_config = [pc |-> "idle"]]
                /\ last' = [op |-> "update_config", result |-> "400"]
        /\ out' = <<>>
        /\ UNCHANGED <<reset_call, clock, switches, traffic_stats, blocked_ips, config,
                       whitelist, total_packet_count, total_byte_count>>

\* lines 490-493: self.whitelist, then success
ConfigWhitelist ==
    LET self == calls.update_config
    IN  /\ self.pc = "whitelist"
        /\ whitelist' = SeqToSet(Get(self.new_config.v, "whitelist", <<>>))
        /\ calls' = [calls EXCEPT !.update_config = [pc |-> "idle"]]
        /\ out' = <<>>
        /\ last' = [op |-> "update_config", result |-> "200"]
        /\ UNCHANGED <<reset_call, clock, switches, traffic_stats, blocked_ips, config,
                       detection_rules, total_packet_count, total_byte_count>>

\* a controller with one switch that has tracked one frame from each
\* address at time 0 and refreshed the rates
TrackedRecord ==
    [NewStats(0) EXCEPT
       !.packet_count = 1, !.byte_count = 3,
       !.pps = Rate(1, 1), !.bps = Rate(3, 1),
       !.packet_history = <<[time |-> 0, bytes |-> 3]>>]

InitTracked ==
    /\ clock = 0
    /\ switches = <<1>>
    /\ traffic_stats =
          Put(Put(EmptyDict, "10.0.0.3", TrackedRecord), "10.0.0.5", TrackedRecord)
    /\ blocked_ips = EmptyDict
    /\ config = StartConfig
    /\ detection_rules = Get(StartConfig.v, "detection_rules", <<>>)
    /\ whitelist = SeqToSet(Get(StartConfig.v, "whitelist", <<>>))
    /\ total_packet_count = 2
    /\ total_byte_count = 6
    /\ out = <<>>
    /\ last = [op |-> "init", result |-> "ok"]
    /\ reset_call = ResetIdle
    /\ calls = CallsIdle

\* bodies POSTed to /config beside the detector
ConfigPayloads ==
    {StartConfig, AltConfig, Obj([whitelist |-> <<"10.0.0.5">>]),
     Arr(<<"detection_rules">>)}

\* configuration updates beside the detector thread
NextConfig ==
    \/ Tick
    \/ \E new_config \in ConfigPayloads : ConfigBegin(new_config)
    \/ ConfigRules
    \/ ConfigWhitelist
    \/ DetectorThread

SpecConfig == InitTracked /\ [][NextConfig]_vars

\* ---- a clock that advances inside the ledger update ----
\* The two time.time() reads of packet_in_handler (lines 233 and 235) are
\* separate calls: the second may return a later time than the first.
SkewedClock == {0, 1}

NextSkew ==
    \/ Tick
    \/ \E dpid \in Dpids : SwitchFeatures(dpid)
    \/ \E dpid \in Dpids, src_ip \in Addrs, nbytes \in PktSizes, d \in SkewedClock :
          PacketIn(dpid, "ip", src_ip, nbytes, d)
    \/ StatsUpdate
    \/ DetectPass

SpecSkew == Init /\ [][NextSkew]_vars

\* ---- frames arriving at a controller that already tracks addresses ----
\* Further frames of every kind reach the controller of InitTracked, whose
\* records have non-zero rates, beside the two threads and the whitelist API.
NextIngest ==
    \/ Tick
    \/ \E dpid \in Dpids : SwitchFeatures(dpid)
    \/ \E dpid \in Dpids, ethertype \in EtherTypes, src_ip \in Addrs \cup {NoIp},
          nbytes \in PktSizes :
          PacketInUpTo(MaxPkts + 2, dpid, ethertype, src_ip, nbytes, 0)
    \/ StatsUpdate
    \/ DetectPass
    \/ \E ip \in WhitelistIps : AddWhitelist(ip)

SpecIngest == InitTracked /\ [][NextIngest]_vars

\* ---- the life of a block entry ----
\* Everything that runs beside the block registry, from the controller of
\* InitTracked: frames of tracked addresses, both threads as whole
\* iterations, quiet periods long enough for eviction and expiry, and the
\* API operations on the configuration, the whitelist and the blocks.
NextLifecycle ==
    \/ Sleep(InactiveSeconds + 1)
    \/ SwitchFeatures(1)
    \/ \E src_ip \in Addrs, nbytes \in PktSizes :
          PacketInUpTo(MaxPkts + 2, 1, "ip", src_ip, nbytes, 0)
    \/ StatsUpdate
    \/ DetectPass
    \/ UpdateConfig(AltConfig)
    \/ \E src_ip \in Addrs : UnblockIp(src_ip)
    \/ \E ip \in WhitelistIps : AddWhitelist(ip)
    \/ ResetAll

SpecLifecycle == InitTracked /\ [][NextLifecycle]_vars

\* ---- a detection pass whose threat phase fails ----
\* The rule list is replaced by one whose rule has no action: the rule is
\* true on a record with traffic and _block_ip raises for it.  Blocks made
\* under the first configuration expire meanwhile.
NextSweep ==
    \/ Tick
    \/ SwitchFeatures(1)
    \/ StatsUpdate
    \/ DetectPass
    \/ UpdateConfig(NoActionConfig)
    \/ \E src_ip \in Addrs : UnblockIp(src_ip)

SpecSweep == InitTracked /\ [][NextSweep]_vars

\* ---- the stats thread statement by statement beside frames and reset ----
\* From the controller of InitTracked: quiet periods after which records are
\* inactive, frames and POST /reset as whole handlers, and the stats thread
\* one statement group at a time.
NextEvict ==
    \/ Sleep(InactiveSeconds + 1)
    \/ SwitchFeatures(1)
    \/ \E src_ip \in Addrs, nbytes \in PktSizes :
          PacketInBy(MaxPkts + 2, MaxIdle, 1, "ip", src_ip, nbytes, 0)
    \/ StatsThread
    \/ ResetAll

SpecEvict == InitTracked /\ [][NextEvict]_vars

\* ---- POST /unblock statement by statement beside other removals ----
\* _unblock_ip, lines 382-404, called by the unblock API: the membership
\* test, then one delete per switch
UnblockBegin(src_ip) ==
    /\ calls.unblock.pc = "idle"
    /\ IF Has(blocked_ips, src_ip)
       THEN /\ calls' = [calls EXCEPT !.unblock = [pc |-> "del", src_ip |-> src_ip]]
            /\ out' = DeleteFlows(switches, src_ip)
            /\ last' = [op |-> "unblock_step", ip |-> src_ip, result |-> "ok"]
       ELSE /\ UNCHANGED calls
            /\ out' = <<>>
            /\ last' = [op |-> "unblock", ip |-> src_ip, result |-> "400"]
    /\ UNCHANGED <<reset_call, clock, switches, traffic_stats, blocked_ips, config,
                   detection_rules, whitelist, total_packet_count, total_byte_count>>

\* _unblock_ip, line 406, and the handler's answer: del raises KeyError when
\* the entry is gone, and the handler turns the exception into a 500
UnblockDel ==
    LET self == calls.unblock
    IN  /\ self.pc = "del"
        /\ blocked_ips' =
              IF Has(blocked_ips, self.src_ip) THEN Del(blocked_ips, self.src_ip)
              ELSE blocked_ips
        /\ calls' = [calls EXCEPT !.unblock = [pc |-> "idle"]]
        /\ out' = <<>>
        /\ last' = [op |-> "unblock", ip |-> self.src_ip,
                    result |-> IF Has(blocked_ips, self.src_ip) THEN "200" ELSE "500"]
        /\ UNCHANGED <<reset_call, clock, switches, traffic_stats, config,
                       detection_rules, whitelist, total_packet_count, total_byte_count>>

\* One unblock request in steps beside a second unblock request, the
\* detector's passes (threat phase and expiry sweep) and POST /reset, from
\* the controller of InitTracked.
NextRemove ==
    \/ Tick
    \/ SwitchFeatures(1)
    \/ DetectPass
    \/ ResetAll
    \/ \E src_ip \in Addrs : UnblockIp(src_ip)
    \/ \E src_ip \in Addrs : UnblockBegin(src_ip)
    \/ UnblockDel

SpecRemove == InitTracked /\ [][NextRemove]_vars

\* ---- one turn of the detector's loop in two steps ----
\* lines 449-461 for the next key of the copy: the record is looked up (the
\* defaultdict inserts it when it is gone) and the rules are evaluated on it
\* in order; the turn stops before _block_ip with the first rule that is true
DetectEvaluate ==
    LET self == calls.detector_thread
        src_ip == Head(self.keys)
        ts1 == Touch(traffic_stats, src_ip, clock)
        m == FirstMatch(detection_rules, ts1.val[src_ip])
    IN  /\ self.pc = "threats"
        /\ self.keys # <<>>
        /\ IF Has(blocked_ips, src_ip) \/ InWhitelist(src_ip, whitelist)
           THEN /\ UNCHANGED traffic_stats
                /\ calls' = [calls EXCEPT !.detector_thread.keys = Tail(@)]
           ELSE /\ traffic_stats' = ts1
                /\ calls' = [calls EXCEPT !.detector_thread =
                                IF m = 0 THEN [self EXCEPT !.keys = Tail(@)]
                                ELSE [pc |-> "block", now |-> self.now, keys |-> self.keys,
                                      read |-> self.read, rule |-> detection_rules[m]]]
        /\ out' = <<>>
        /\ last' = [op |-> "detect_step", ip |-> src_ip, result |-> "ok"]
        /\ UNCHANGED <<reset_call, clock, switches, blocked_ips, config, detection_rules,
                       whitelist, total_packet_count, total_byte_count>>

\* line 462: _block_ip(src_ip, rule), which reads the rates of
\* self.traffic_stats[src_ip] anew (lines 372-373)
DetectBlock ==
    LET self == calls.detector_thread
        src_ip == Head(self.keys)
        st == block_ip([ts |-> traffic_stats, bl |-> blocked_ips,
                        out |-> <<>>, result |-> "ok"], src_ip, self.rule, clock)
    IN  /\ self.pc = "block"
        /\ traffic_stats' = st.ts
        /\ blocked_ips' = st.bl
        /\ out' = st.out
        /\ calls' = [calls EXCEPT !.detector_thread =
                        IF st.result = "raised" THEN [pc |-> "except", at |-> "threats"]
                        ELSE [pc |-> "threats", now |-> self.now, keys |-> Tail(self.keys),
                              read |-> self.read]]
        /\ last' = [op |-> "detect_step", ip |-> src_ip,
                    result |-> IF st.result = "raised" THEN "raised" ELSE "ok"]
        /\ UNCHANGED <<reset_call, clock, switches, config, detection_rules, whitelist,
                       total_packet_count, total_byte_count>>

\* The detector in these steps beside whole iterations of the stats thread
\* and POST /reset, from the controller of InitTracked; the rule list stays
\* that of StartConfig and no step of the detector raises.
NextTrigger ==
    \/ Tick
    \/ SwitchFeatures(1)
    \/ StatsUpdate
    \/ ResetAll
    \/ DetectWake
    \/ DetectEvaluate
    \/ DetectBlock
    \/ DetectSweep
    \/ DetectUnblockNext
    \/ DetectLoop

SpecTrigger == InitTracked /\ [][NextTrigger]_vars

\* ---- blocks of every kind of action ----
\* temporary with duration 0, and temporary without a duration
RuleTempZero ==
    [name |-> "temporary_zero", enabled |-> TRUE, logic |-> "OR",
     thresholds |-> [pps |-> 0],
     action |-> [type |-> "temporary", duration |-> 0]]

RuleTempDefault ==
    [name |-> "temporary_default", enabled |-> TRUE, logic |-> "OR",
     thresholds |-> [pps |-> 0],
     action |-> [type |-> "temporary"]]

KindRules == {RuleFlood, RuleSustained, RuleTempZero, RuleTempDefault}

\* get_blocked_summary, line 523: the block type reported for an entry
block_type(block_info) ==
    IF block_info.duration = 0 THEN "permanent" ELSE "temporary"

\* Addresses of InitTracked are blocked under rules of each kind and the
\* detector runs its passes while time goes by.
NextKinds ==
    \/ Tick
    \/ SwitchFeatures(1)
    \/ \E src_ip \in Addrs, rule \in KindRules : CallBlockIp(src_ip, rule)
    \/ DetectPass

SpecKinds == InitTracked /\ [][NextKinds]_vars

\* inputs of _evaluate_rule: rules with every combination of optional keys,
\* records with rates below, at and above the thresholds
MaxThreshold == 1
EvalThresholds ==
    {<<>>} \cup {[pps |-> p] : p \in 0..MaxThreshold}
           \cup {[bps |-> b] : b \in 0..MaxThreshold}
           \cup {[pps |-> p, bps |-> b] : p \in 0..MaxThreshold, b \in 0..MaxThreshold}

EvalRules ==
    {[name |-> "r", thresholds |-> th] : th \in EvalThresholds}
    \cup {[name |-> "r", thresholds |-> th, enabled |-> e] :
             th \in EvalThresholds, e \in BOOLEAN}
    \cup {[name |-> "r", thresholds |-> th, logic |-> l] :
             th \in EvalThresholds, l \in {"AND", "OR"}}
    \cup {[name |-> "r", thresholds |-> th, enabled |-> e, logic |-> l] :
             th \in EvalThresholds, e \in BOOLEAN, l \in {"AND", "OR"}}
    \cup {[name |-> "r", enabled |-> TRUE, logic |-> "AND"]}

EvalRates == {ZeroRate} \cup {Rate(n, w) : n \in 1..(MaxThreshold + 1), w \in 1..2}

EvalStats == {[pps |-> p, bps |-> b] : p \in EvalRates, b \in EvalRates}

\* _evaluate_rule(rule, stats) called on its own
CallEvaluateRule(rule, stats) ==
    /\ last.op = "init"
    /\ last' = [op |-> "evaluate", rule |-> rule, stats |-> stats,
                result |-> evaluate_rule(rule, stats)]
    /\ UNCHANGED <<calls, reset_call, clock, switches, traffic_stats, blocked_ips, config,
                   detection_rules, whitelist, total_packet_count,
                   total_byte_count, out>>

\* inputs of _calculate_rates: histories stamped in arrival order up to the
\* time of the call, configurations with and without monitoring_window
MaxHist == 2
MaxNow == 3
MaxWindow == 2
HistEntries == {[time |-> t, bytes |-> b] : t \in 0..MaxNow, b \in {1, 3}}
RECURSIVE Histories(_)
Histories(n) ==
    IF n = 0 THEN {<<>>}
    ELSE LET shorter == Histories(n - 1)
         IN  shorter \cup
             {Append(h, e) : h \in shorter, e \in HistEntries}
Ordered(h) == \A i \in DOMAIN h : \A j \in DOMAIN h : i <= j => h[i].time <= h[j].time
EvalHistories == {h \in Histories(MaxHist) : Ordered(h)}
EvalConfigs ==
    {Obj([detection_rules |-> <<>>, monitoring_window |-> w]) : w \in 1..MaxWindow}
    \cup {Obj([detection_rules |-> <<>>])}

\* _calculate_rates on a record with history h under cfg, called at time now
CallCalculateRates(h, cfg, now) ==
    /\ last.op = "init"
    /\ \A i \in DOMAIN h : h[i].time <= now
    /\ last' = [op |-> "rates", history |-> h, cfg |-> cfg, now |-> now,
                result |-> calculate_rates([NewStats(0) EXCEPT !.packet_history = h],
                                           cfg, now)]
    /\ UNCHANGED <<calls, reset_call, clock, switches, traffic_stats, blocked_ips, config,
                   detection_rules, whitelist, total_packet_count,
                   total_byte_count, out>>

NextEval ==
    \/ \E rule \in EvalRules, stats \in EvalStats : CallEvaluateRule(rule, stats)
    \/ \E h \in EvalHistories, cfg \in EvalConfigs, now \in 0..MaxNow :
          CallCalculateRates(h, cfg, now)

SpecEval == Init /\ [][NextEval]_vars

\* ======================= properties =======================
\* shorthands used by the properties
Blocked(bl, a) == a \in DOMAIN bl.val
IsEnabled(rule) == Get(rule, "enabled", TRUE)
\* the rate r = n / w is strictly above the threshold t
Above(r, t) == r.n > t * r.w
WithLogic(rule, l) ==
    [k \in (DOMAIN rule) \cup {"logic"} |-> IF k = "logic" THEN l ELSE rule[k]]
AddsFor(msgs, a) == {i \in DOMAIN msgs : msgs[i].op = "add" /\ msgs[i].match = a}
DeletesFor(msgs, a) == {i \in DOMAIN msgs : msgs[i].op = "delete" /\ msgs[i].match = a}

\* the reference evaluation: one condition per threshold key present, each
\* true iff the rate is strictly above the threshold
RefEvaluate(rule, stats) ==
    LET th == Get(rule, "thresholds", <<>>)
        present == (DOMAIN th) \cap {"pps", "bps"}
    IN  IF present = {} THEN FALSE
        ELSE IF "logic" \in DOMAIN rule /\ rule.logic = "AND"
             THEN \A k \in present : Above(stats[k], th[k])
             ELSE \E k \in present : Above(stats[k], th[k])

\* C3: for every enabled rule and record, _evaluate_rule returns the
\* reference value (strict comparison per threshold key present, false with
\* no key, conjunction under AND, disjunction under OR or no logic), and a
\* rule with a single threshold evaluates the same under AND and under OR.
C3_EvaluateIsReference ==
    (last.op = "evaluate" /\ IsEnabled(last.rule)) =>
        /\ last.result = RefEvaluate(last.rule, last.stats)
        /\ Cardinality(DOMAIN Get(last.rule, "thresholds", <<>>)) = 1 =>
              evaluate_rule(WithLogic(last.rule, "AND"), last.stats)
                = evaluate_rule(WithLogic(last.rule, "OR"), last.stats)

\* C3 witness: an enabled AND rule with both thresholds, one rate above its
\* threshold and the other exactly at it, evaluated to false.
C3_Witness ==
    /\ last.op = "evaluate"
    /\ IsEnabled(last.rule)
    /\ "logic" \in DOMAIN last.rule /\ last.rule.logic = "AND"
    /\ "thresholds" \in DOMAIN last.rule
    /\ DOMAIN last.rule.thresholds = {"pps", "bps"}
    /\ Above(last.stats.pps, last.rule.thresholds.pps)
    /\ last.stats.bps.n = last.rule.thresholds.bps * last.stats.bps.w
    /\ last.result = FALSE

\* C1: a call of _block_ip for an address in the whitelist, whatever its
\* rates, creates no BlockEntry and sends no drop instruction to any switch.
C1_WhitelistPrecedence ==
    [][(last'.op = "block_ip" /\ last'.ip \in whitelist) =>
          (blocked_ips' = blocked_ips /\ out' = <<>>)]_vars

\* C1 witness: _block_ip was called for a whitelisted, tracked, unblocked
\* address whose rates make both call rules true, with a switch known.
C1_Witness ==
    /\ last.op = "block_ip"
    /\ last.result = "whitelisted"
    /\ last.ip \in whitelist
    /\ switches # <<>>
    /\ ~Blocked(blocked_ips, last.ip)
    /\ Has(traffic_stats, last.ip)
    /\ \A rule \in CallRules : evaluate_rule(rule, traffic_stats.val[last.ip])

\* C2 as stated: in every reachable state no address is both in the block
\* registry and in the whitelist.
C2_NoBlockedWhitelisted ==
    \A a \in Addrs : ~(Blocked(blocked_ips, a) /\ a \in whitelist)

\* C2 amended: no step creates a BlockEntry for an address that is in the
\* whitelist when the step starts (membership is tested before a block is
\* created; a block that already exists is not lifted by whitelisting).
C2_NoBlockOfWhitelisted ==
    [][\A a \in Addrs :
          (~Blocked(blocked_ips, a) /\ Blocked(blocked_ips', a)) =>
              a \notin whitelist]_vars

\* C2 witness: a detection pass has just completed and left unblocked a
\* whitelisted tracked address on which a rule of the list evaluates true.
C2_Witness ==
    /\ last.op = "detect" /\ last.result = "ok"
    /\ \E a \in whitelist :
          /\ Has(traffic_stats, a)
          /\ ~Blocked(blocked_ips, a)
          /\ \E i \in DOMAIN detection_rules :
                evaluate_rule(detection_rules[i], traffic_stats.val[a])

\* the rule and duration a detection pass must record for a record: those of
\* the lowest-index enabled rule of the list that evaluates true on it
Matching(rules, stats) ==
    {i \in DOMAIN rules : IsEnabled(rules[i]) /\ RefEvaluate(rules[i], stats)}
Lowest(S) == CHOOSE i \in S : \A j \in S : i <= j
RuleDuration(rule) ==
    IF rule.action.type = "temporary"
    THEN (IF "duration" \in DOMAIN rule.action
          THEN rule.action.duration ELSE DefaultDuration)
    ELSE 0
\* addresses that get a BlockEntry in the step
NewlyBlocked == {a \in Addrs : ~Blocked(blocked_ips, a) /\ Blocked(blocked_ips', a)}

\* C4: a rule whose enabled flag is false evaluates to false on every
\* record, and no step creates a BlockEntry that names a disabled rule of
\* the list: the named rule is an enabled rule of the list.
C4_DisabledNeverTriggers ==
    /\ \A rule \in EvalRules \cup {RuleProbe} : \A stats \in EvalStats :
          ~IsEnabled(rule) => ~evaluate_rule(rule, stats)
    /\ [][\A a \in NewlyBlocked :
             /\ \E i \in DOMAIN detection_rules :
                   /\ detection_rules[i].name = blocked_ips'.val[a].rule
                   /\ IsEnabled(detection_rules[i])
             /\ \A i \in DOMAIN detection_rules :
                   detection_rules[i].name = blocked_ips'.val[a].rule
                      => IsEnabled(detection_rules[i])]_vars

\* C4 witness: a pass has just blocked an address under "byte_burst" while
\* the disabled rule before it in the list has its threshold exceeded by the
\* rates recorded in the entry.
C4_Witness ==
    /\ last.op = "detect"
    /\ \E a \in Addrs :
          /\ Blocked(blocked_ips, a)
          /\ AddsFor(out, a) # {}
          /\ blocked_ips.val[a].rule = RuleBurst.name
          /\ detection_rules # <<>>
          /\ detection_rules[1] = RuleProbe
          /\ Above(blocked_ips.val[a].pps, RuleProbe.thresholds.pps)

\* C5 as stated: after a detection pass, every address that at the start of
\* the pass was tracked, not blocked, not whitelisted and had an enabled
\* rule of the list evaluating true on its record has a BlockEntry.
C5_DetectionResponse ==
    [][last'.op = "detect" =>
          \A a \in Addrs :
             ( /\ Has(traffic_stats, a)
               /\ ~Blocked(blocked_ips, a)
               /\ a \notin whitelist
               /\ Matching(detection_rules, traffic_stats.val[a]) # {} )
             => Blocked(blocked_ips', a)]_vars

\* C6: a BlockEntry created by a detection pass records the name and the
\* duration of the lowest-index enabled rule that evaluates true on the
\* address's record, and the pass blocks the address once (one drop
\* instruction per known switch).
C6_FirstMatchWins ==
    [][last'.op = "detect" =>
          \A a \in NewlyBlocked :
             LET hits == Matching(detection_rules, traffic_stats.val[a])
                 rule == detection_rules[Lowest(hits)]
             IN  /\ Has(traffic_stats, a)
                 /\ hits # {}
                 /\ blocked_ips'.val[a].rule = rule.name
                 /\ blocked_ips'.val[a].duration = RuleDuration(rule)
                 /\ Cardinality(AddsFor(out', a)) = Len(switches)
                 /\ \A i \in AddsFor(out', a) :
                       out'[i].hard_timeout = RuleDuration(rule)]_vars

\* C6 witness: a pass has just blocked an address under the first rule of
\* the list while the second rule is also true on the recorded rates.
C6_Witness ==
    /\ last.op = "detect"
    /\ Len(detection_rules) >= 2
    /\ \E a \in Addrs :
          /\ Blocked(blocked_ips, a)
          /\ AddsFor(out, a) # {}
          /\ blocked_ips.val[a].rule = detection_rules[1].name
          /\ evaluate_rule(detection_rules[2],
                           [pps |-> blocked_ips.val[a].pps,
                            bps |-> blocked_ips.val[a].bps])
          /\ detection_rules[2].name # detection_rules[1].name

\* C7: a BlockEntry with duration D > 0 is present right after the pass that
\* created it; a sweep at time now keeps it unchanged while
\* now - blockedAt <= D, and removes it, with a delete instruction to every
\* known switch, when now - blockedAt > D.
C7_TemporaryExpiry ==
    [][(last'.op = "detect" /\ last'.result = "ok") =>
          /\ \A a \in Addrs : AddsFor(out', a) # {} => Blocked(blocked_ips', a)
          /\ \A a \in Addrs :
                (Blocked(blocked_ips, a) /\ blocked_ips.val[a].duration > 0) =>
                   IF clock - blocked_ips.val[a].block_time
                         > blocked_ips.val[a].duration
                   THEN /\ ~Blocked(blocked_ips', a)
                        /\ \A d \in SeqToSet(switches) :
                              \E i \in DeletesFor(out', a) : out'[i].dpid = d
                   ELSE /\ Blocked(blocked_ips', a)
                        /\ blocked_ips'.val[a] = blocked_ips.val[a]
                        /\ DeletesFor(out', a) = {}]_vars

\* C7 witness: a sweep has just removed an address and sent its delete
\* instruction to two known switches.
C7_Witness ==
    /\ last.op = "detect" /\ last.result = "ok"
    /\ Len(switches) = 2
    /\ \E a \in Addrs :
          /\ ~Blocked(blocked_ips, a)
          /\ Cardinality(DeletesFor(out, a)) = 2

\* C8: a BlockEntry with duration 0 is never removed or altered by a
\* detection pass, whatever the time: it leaves the registry only by an
\* explicit unblock or a reset.
C8_PermanentStays ==
    [][\A a \in Addrs :
          (Blocked(blocked_ips, a) /\ blocked_ips.val[a].duration = 0) =>
             \/ (Blocked(blocked_ips', a)
                   /\ blocked_ips'.val[a] = blocked_ips.val[a])
             \/ last'.op \in {"unblock", "reset"}]_vars

\* C8 witness: a sweep has just run over a permanent entry older than every
\* temporary duration of the rules, and the entry is still there.
C8_Witness ==
    /\ last.op = "detect" /\ last.result = "ok"
    /\ \E a \in Addrs :
          /\ Blocked(blocked_ips, a)
          /\ blocked_ips.val[a].duration = 0
          /\ clock - blocked_ips.val[a].block_time > RuleFlood.action.duration

\* C9 as stated: _block_ip on an address that is neither whitelisted nor
\* blocked creates its BlockEntry, and on an address already blocked changes
\* nothing and sends no message.
C9_BlockIdempotent ==
    [][(last'.op = "block_ip" /\ last'.ip \notin whitelist) =>
          IF Blocked(blocked_ips, last'.ip)
          THEN blocked_ips' = blocked_ips /\ out' = <<>>
          ELSE Blocked(blocked_ips', last'.ip)]_vars

\* C10: unblocking an address that has no BlockEntry fails (the API answers
\* 400), sends no instruction to any switch and leaves the block registry,
\* the whitelist and the ledger unchanged.
C10_UnblockAbsent ==
    [][(last'.op = "unblock" /\ ~Blocked(blocked_ips, last'.ip)) =>
          /\ last'.result = "400"
          /\ out' = <<>>
          /\ UNCHANGED <<blocked_ips, whitelist, traffic_stats>>]_vars

\* C10 witness: an unblock has just failed for an address without a
\* BlockEntry while a switch is known and another address is blocked.
C10_Witness ==
    /\ last.op = "unblock" /\ last.result = "400"
    /\ ~Blocked(blocked_ips, last.ip)
    /\ switches # <<>>
    /\ blocked_ips.keys # <<>>

\* the messages of a list that are sent to switch d
SentTo(msgs, d) == {i \in DOMAIN msgs : msgs[i].dpid = d}

\* C11: unblocking a blocked address through the API answers success,
\* removes its BlockEntry (it is no longer listed), leaves every other
\* BlockEntry unchanged and sends the delete instruction exactly once to
\* each known switch and nothing else.
C11_UnblockBlocked ==
    [][(last'.op = "unblock" /\ Blocked(blocked_ips, last'.ip)) =>
          /\ last'.result = "200"
          /\ ~Blocked(blocked_ips', last'.ip)
          /\ last'.ip \notin SeqToSet(blocked_ips'.keys)
          /\ \A b \in Addrs \ {last'.ip} :
                /\ Blocked(blocked_ips', b) = Blocked(blocked_ips, b)
                /\ Blocked(blocked_ips, b) =>
                      blocked_ips'.val[b] = blocked_ips.val[b]
          /\ Len(out') = Len(switches)
          /\ \A d \in SeqToSet(switches) :
                Cardinality(DeletesFor(out', last'.ip) \cap SentTo(out', d)) = 1]_vars

\* C11 witness: an API unblock has just succeeded with two switches known,
\* two delete instructions sent, and another address still blocked.
C11_Witness ==
    /\ last.op = "unblock" /\ last.result = "200"
    /\ Len(switches) = 2
    /\ Cardinality(DeletesFor(out, last.ip)) = 2
    /\ \E b \in Addrs \ {last.ip} :
          Blocked(blocked_ips, b) /\ blocked_ips.val[b].duration = 0

\* C12 as stated: a configuration update that reports failure leaves the
\* stored configuration, the active rule list and the whitelist as they were.
C12_RejectedConfigIntact ==
    [][(last'.op = "update_config" /\ last'.result # "200") =>
          UNCHANGED <<config, detection_rules, whitelist>>]_vars

\* C13: a successful configuration update makes the payload's rule list the
\* active rule list, and while the active rule list is empty no detection
\* pass creates a BlockEntry, whatever the rates.
C13_EmptyRulesNeverBlock ==
    [][/\ (last'.op = "update_config" /\ last'.result = "200") =>
             detection_rules' = config'.v.detection_rules
       /\ (last'.op = "detect" /\ detection_rules = <<>>) =>
             NewlyBlocked = {}]_vars

\* C13 witness: after the rule list was replaced by the empty list, a pass
\* has just run over a tracked, unblocked, non-whitelisted address whose
\* rates make the default flood rule true.
C13_Witness ==
    /\ last.op = "detect" /\ last.result = "ok"
    /\ config = EmptyRulesConfig
    /\ detection_rules = <<>>
    /\ \E a \in Addrs \ whitelist :
          /\ Has(traffic_stats, a)
          /\ ~Blocked(blocked_ips, a)
          /\ evaluate_rule(RuleFlood, traffic_stats.val[a])

\* C18 as stated: _block_ip on a non-whitelisted address without BlockEntry,
\* for any number of known switches, creates the entry and sends exactly one
\* drop instruction to each known switch; the entry's duration and every
\* instruction's hard timeout are the rule's duration (0 when permanent).
C18_BlockCreatesEntry ==
    [][(last'.op = "block_ip" /\ last'.ip \notin whitelist
           /\ ~Blocked(blocked_ips, last'.ip)) =>
          /\ Blocked(blocked_ips', last'.ip)
          /\ Len(out') = Len(switches)
          /\ \E rule \in CallRules :
                /\ blocked_ips'.val[last'.ip].rule = rule.name
                /\ blocked_ips'.val[last'.ip].duration = RuleDuration(rule)
                /\ \A d \in SeqToSet(switches) :
                      /\ Cardinality(AddsFor(out', last'.ip) \cap SentTo(out', d)) = 1
                      /\ \A i \in AddsFor(out', last'.ip) :
                            out'[i].hard_timeout = RuleDuration(rule)]_vars

\* C20 as stated: handling a switch's connection sends that switch a drop
\* instruction for every address in the block registry.
C20_ReconcileOnConnect ==
    [][last'.op = "switch_features" =>
          \A a \in Addrs :
             Blocked(blocked_ips, a) =>
                AddsFor(out', a) \cap SentTo(out', out'[1].dpid) # {}]_vars

\* sum of the byte lengths of the entries of h whose index is in S
RECURSIVE BytesOf(_, _)
BytesOf(h, S) ==
    IF S = {} THEN 0
    ELSE LET i == CHOOSE x \in S : TRUE IN h[i].bytes + BytesOf(h, S \ {i})

\* C15: for every history and every window W > 0, the rates computed at
\* time now satisfy pps * W = number of history entries stamped in
\* (now - W, now] and bps * W = sum of their byte lengths; both rates are 0
\* when no entry falls in the window.
C15_RatesAreWindowCounts ==
    last.op = "rates" =>
        LET W == IF "monitoring_window" \in DOMAIN last.cfg.v
                 THEN last.cfg.v.monitoring_window ELSE DefaultWindow
            h == last.history
            inwin == {i \in DOMAIN h : h[i].time > last.now - W /\ h[i].time <= last.now}
            pps == last.result.pps
            bps == last.result.bps
        IN  /\ pps.w > 0 /\ bps.w > 0
            /\ pps.n * W = Cardinality(inwin) * pps.w
            /\ bps.n * W = BytesOf(h, inwin) * bps.w
            /\ inwin = {} => (pps.n = 0 /\ bps.n = 0)

\* C15 witness: rates computed with W = 2 over a history with one entry
\* stamped exactly now - W (outside the window) and one stamped now.
C15_Witness ==
    /\ last.op = "rates"
    /\ "monitoring_window" \in DOMAIN last.cfg.v
    /\ last.cfg.v.monitoring_window = 2
    /\ Len(last.history) = 2
    /\ last.history[1].time = last.now - 2
    /\ last.history[2].time = last.now
    /\ last.result.pps = Rate(1, 2)
    /\ last.result.bps = Rate(last.history[2].bytes, 2)

\* C17: after an iteration of the stats thread at time now, no tracked
\* record has now - last_seen > 60 (so none is listed), and the iteration
\* leaves the block registry exactly as it was: a blocked address whose
\* record was evicted is still blocked.
C17_EvictionKeepsBlocks ==
    [][(last'.op = "stats" /\ last'.result = "ok") =>
          /\ \A a \in Addrs :
                Has(traffic_stats', a) =>
                   /\ a \in SeqToSet(traffic_stats'.keys)
                   /\ clock - traffic_stats'.val[a].last_seen <= InactiveSeconds
          /\ SeqToSet(traffic_stats'.keys) = DOMAIN traffic_stats'.val
          /\ blocked_ips' = blocked_ips]_vars

\* C17 witness: the stats thread has just evicted the record of an address
\* that is permanently blocked; the block is older than 60 seconds and
\* still in the registry.
C17_Witness ==
    /\ last.op = "stats" /\ last.result = "ok"
    /\ \E a \in Addrs :
          /\ Blocked(blocked_ips, a)
          /\ a \in SeqToSet(blocked_ips.keys)
          /\ blocked_ips.val[a].duration = 0
          /\ clock - blocked_ips.val[a].block_time > InactiveSeconds
          /\ ~Has(traffic_stats, a)

\* C19 as stated: when a send to some switch fails during _block_ip the
\* BlockEntry is still created, and when a send to some switch fails during
\* an unblock the BlockEntry is still removed.
C19_SendFailureKeepsOutcome ==
    [][/\ last'.op = "block_ip_sendfail" => Blocked(blocked_ips', last'.ip)
       /\ last'.op = "unblock_sendfail" => ~Blocked(blocked_ips', last'.ip)]_vars

\* C14 as stated: when a reset answers success the block registry is empty,
\* the ledger holds no record and both cumulative counters are zero, while
\* the whitelist, the configuration and the rule list are untouched; also
\* when packets arrive and the two threads run during the reset.
C14_ResetLeavesNothing ==
    [][(last'.op = "reset" /\ last'.result = "200") =>
          /\ blocked_ips'.keys = <<>>
          /\ DOMAIN blocked_ips'.val = {}
          /\ traffic_stats'.keys = <<>>
          /\ DOMAIN traffic_stats'.val = {}
          /\ total_packet_count' = 0
          /\ total_byte_count' = 0
          /\ UNCHANGED <<whitelist, config, detection_rules>>]_vars

\* an address that has sent more than T * W packets inside the current
\* window of W seconds (T the pps threshold of the first rule): every packet
\* of the record arrived at a time >= 0, which is inside the window while
\* clock < W
Flooding(ts, a) ==
    /\ Has(ts, a)
    /\ clock < config.v.monitoring_window
    /\ ts.val[a].packet_count
          > detection_rules[1].thresholds.pps * config.v.monitoring_window

\* C16 as stated: under the default configuration an address that has sent
\* more than 1000 * 10 packets inside the window has, after a rate refresh,
\* rates on which volumetric_flood evaluates true, and a detection pass that
\* follows the refresh blocks it.
C16_DefaultsDetectFlood ==
    [][/\ (last'.op = "stats" /\ last'.result = "ok") =>
             \A a \in Addrs :
                Flooding(traffic_stats', a) =>
                   evaluate_rule(detection_rules[1], traffic_stats'.val[a])
       /\ (last'.op = "detect" /\ last.op = "stats") =>
             \A a \in Addrs \ whitelist :
                (Flooding(traffic_stats, a) /\ ~Blocked(blocked_ips, a)) =>
                   Blocked(blocked_ips', a)]_vars

\* C21: neither thread ever ends, and each thread is at the top of its loop
\* (where the next iteration starts) again and again, in every behaviour:
\* also after an exception raised at any point of an iteration (while
\* asleep, in either loop of the body) has taken it to its except clause.
C21_TasksNeverEnd ==
    /\ [](calls.stats_thread.pc # "ended" /\ calls.detector_thread.pc # "ended")
    /\ []<>(calls.stats_thread.pc = "sleep")
    /\ []<>(calls.detector_thread.pc = "sleep")

\* C21 witness: the detector thread is back at the top of its loop after an
\* exception raised during the expiry sweep, with an address still blocked,
\* while the stats thread is in the middle of an iteration.
C21_Witness ==
    /\ last.op = "except"
    /\ last.thread = "detector_thread"
    /\ last.at = "unblock"
    /\ calls.detector_thread.pc = "sleep"
    /\ calls.stats_thread.pc = "scan"
    /\ blocked_ips.keys # <<>>

\* a listed record that shows whole packets only: at least one packet, and
\* a byte count that is the sum of that many frame sizes
WholePackets(entry) ==
    /\ entry.packet_count >= 1
    /\ \E lo \in PktSizes, hi \in PktSizes :
          /\ entry.byte_count >= lo * entry.packet_count
          /\ entry.byte_count <= hi * entry.packet_count

\* C22 as stated: whatever runs between the steps of the statistics listing
\* (packet ingestion, rate refresh, eviction, reset), the listing completes
\* and every record it returns shows whole packets only (none counted in the
\* packet count and not yet in the byte count).
C22_ListingAtomic ==
    [][last'.op = "get_stats" =>
          /\ last'.result = "200"
          /\ \A i \in DOMAIN last'.body : WholePackets(last'.body[i])]_vars

\* the configurations the controller is given
Configurations == {c \in {StartConfig} \cup ConfigPayloads : c.kind = "object"}

\* C23 as stated: within one detection pass every address is evaluated
\* against the same whitelist and the same rule list, and the two belong to
\* one configuration, also when a configuration update runs during the pass.
C23_OnePassOneConfig ==
    calls.detector_thread.pc = "threats" =>
        LET read == calls.detector_thread.read
        IN  /\ \A i \in DOMAIN read : \A j \in DOMAIN read :
                  /\ read[i].whitelist = read[j].whitelist
                  /\ ("rules" \in DOMAIN read[i] /\ "rules" \in DOMAIN read[j]) =>
                        read[i].rules = read[j].rules
            /\ \A i \in DOMAIN read :
                  "rules" \in DOMAIN read[i] =>
                     \E c \in Configurations :
                        /\ read[i].rules = Get(c.v, "detection_rules", <<>>)
                        /\ read[i].whitelist = SeqToSet(Get(c.v, "whitelist", <<>>))

\* the history and the packet count of an address (empty, 0 when untracked)
HistoryOf(ts, a) == IF Has(ts, a) THEN ts.val[a].packet_history ELSE <<>>
CountOf(ts, a) == IF Has(ts, a) THEN ts.val[a].packet_count ELSE 0
Min(x, y) == IF x <= y THEN x ELSE y

\* C24: a record's history never has more than 10,000 entries and has
\* exactly min(n, 10,000) after the n packets counted in the record; n more
\* packets leave the history ending with their n entries (the last 10,000
\* of them at most), preceded by the newest entries of the old history in
\* their order: on overflow the oldest entries are the ones dropped.
C24_BoundedFifoHistory ==
    [][\A a \in Addrs :
          LET old == HistoryOf(traffic_stats, a)
              new == HistoryOf(traffic_stats', a)
              n == CountOf(traffic_stats', a) - CountOf(traffic_stats, a)
              kept == Len(new) - Min(n, HistoryMaxLen)
          IN  /\ Len(new) <= HistoryMaxLen
              /\ Len(new) = Min(CountOf(traffic_stats', a), HistoryMaxLen)
              /\ (last'.op = "packet_burst" /\ n > 0) =>
                    /\ Len(new) = Min(Len(old) + n, HistoryMaxLen)
                    /\ \A i \in (kept + 1)..Len(new) :
                          new[i] = [time |-> clock,
                                    bytes |-> (total_byte_count' - total_byte_count) \div n]
                    /\ SubSeq(new, 1, kept) = SubSeq(old, Len(old) - kept + 1, Len(old))]_vars

\* C24 witness: a record that has counted 10,002 packets, 5,001 at time 0
\* and 5,001 at time 1, holds 10,000 entries: the newest 4,999 of time 0
\* followed by the 5,001 of time 1.
C24_Witness ==
    /\ last.op = "packet_burst"
    /\ \E a \in Addrs :
          /\ Has(traffic_stats, a)
          /\ traffic_stats.val[a].packet_count = HistoryMaxLen + 2
          /\ Len(traffic_stats.val[a].packet_history) = HistoryMaxLen
          /\ traffic_stats.val[a].packet_history[1].time = 0
          /\ traffic_stats.val[a].packet_history[HistoryMaxLen \div 2 - 1].time = 0
          /\ traffic_stats.val[a].packet_history[HistoryMaxLen \div 2].time = 1
          /\ traffic_stats.val[a].packet_history[HistoryMaxLen].time = 1

\* C25 as stated: every entry of every record's history is stamped no later
\* than the record's last_seen, also when the clock advances between the
\* time reads of one ledger update.
C25_HistoryNotAfterLastSeen ==
    \A a \in Addrs :
       Has(traffic_stats, a) =>
          \A i \in DOMAIN traffic_stats.val[a].packet_history :
             traffic_stats.val[a].packet_history[i].time <= traffic_stats.val[a].last_seen

\* C26: handling an IPv4 frame from address a adds one packet to a's record
\* (created first when absent): packet count, byte count, last_seen and
\* history change, a's rates and first_seen do not (a new record has zero
\* rates); every other address's record, the order of the other keys, the
\* block registry, the whitelist, the configuration and the rule list are
\* unchanged and no instruction is sent.
C26_RecordPacketFrame ==
    [][(last'.op = "packet_in" /\ last'.ip # NoIp) =>
          LET a == last'.ip
              was == Has(traffic_stats, a)
              old == IF was THEN traffic_stats.val[a] ELSE NewStats(clock)
              new == traffic_stats'.val[a]
          IN  /\ Has(traffic_stats', a)
              /\ new.pps = old.pps /\ new.bps = old.bps
              /\ ~was => (new.pps = ZeroRate /\ new.bps = ZeroRate)
              /\ new.first_seen = old.first_seen
              /\ new.packet_count = old.packet_count + 1
              /\ new.byte_count - old.byte_count \in PktSizes
              /\ new.last_seen = clock
              /\ new.packet_history =
                    Append(old.packet_history,
                           [time |-> clock, bytes |-> new.byte_count - old.byte_count])
              /\ \A b \in Addrs \ {a} :
                    /\ Has(traffic_stats', b) = Has(traffic_stats, b)
                    /\ Has(traffic_stats, b) =>
                          traffic_stats'.val[b] = traffic_stats.val[b]
              /\ SelectSeq(traffic_stats'.keys, LAMBDA k : k # a)
                    = SelectSeq(traffic_stats.keys, LAMBDA k : k # a)
              /\ out' = <<>>
              /\ UNCHANGED <<blocked_ips, whitelist, config, detection_rules,
                             switches>>]_vars

\* C26 witness: a frame has just been handled for a blocked address whose
\* record existed with non-zero rates; it now counts two packets, its rates
\* are still those recorded when it was blocked, and the other address is
\* tracked and whitelisted.
C26_Witness ==
    /\ last.op = "packet_in"
    /\ last.ip = "10.0.0.5"
    /\ Has(traffic_stats, "10.0.0.5")
    /\ traffic_stats.val["10.0.0.5"].packet_count = 2
    /\ traffic_stats.val["10.0.0.5"].pps = Rate(1, 1)
    /\ Blocked(blocked_ips, "10.0.0.5")
    /\ blocked_ips.val["10.0.0.5"].pps = Rate(1, 1)
    /\ Has(traffic_stats, "10.0.0.3")
    /\ "10.0.0.3" \in whitelist

\* C27: handling a frame from which no source address is extracted (LLDP or
\* another non-IPv4 ethertype) creates no traffic record, changes no traffic
\* record and changes neither cumulative counter.
C27_UnaddressedFrameIgnored ==
    [][(last'.op = "packet_in" /\ last'.ip = NoIp) =>
          UNCHANGED <<traffic_stats, total_packet_count, total_byte_count>>]_vars

\* C28: POST /whitelist with an address changes the whitelist set, to the old
\* set plus that address, and nothing else: the block registry (an entry of
\* the same address included), the traffic records, the rule list, the
\* configuration and the counters are unchanged and no message is sent to a
\* switch; every listing GET /whitelist can then return holds the address.
\* A body without an address changes nothing.
C28_WhitelistAddFrame ==
    [][last'.op = "add_whitelist" =>
          /\ UNCHANGED <<blocked_ips, traffic_stats, detection_rules, config,
                         switches, total_packet_count, total_byte_count>>
          /\ out' = <<>>
          /\ IF last'.result = "200"
             THEN /\ whitelist' = whitelist \cup {last'.ip}
                  /\ \A listing \in get_whitelist(whitelist') :
                        last'.ip \in SeqToSet(listing)
             ELSE whitelist' = whitelist]_vars

\* C28 witness: an address that is blocked and tracked has just been added
\* to the whitelist and its block entry is still there.
C28_Witness ==
    /\ last.op = "add_whitelist"
    /\ last.result = "200"
    /\ last.ip \in whitelist
    /\ Blocked(blocked_ips, last.ip)
    /\ Has(traffic_stats, last.ip)

\* C29: an entry of the block registry stays as it is through every step
\* except its removal, and it is removed only by the expiry sweep of a
\* detection pass (its duration is positive and its age exceeds it), by the
\* unblock API called for its address, or by a reset.  Frames, rate
\* refresh, eviction, whitelist additions, configuration replacement and
\* the blocking phase of a pass leave it untouched.
C29_EntryLeavesBySweepOrUnblock ==
    [][\A a \in Addrs : Blocked(blocked_ips, a) =>
          IF Blocked(blocked_ips', a)
          THEN blocked_ips'.val[a] = blocked_ips.val[a]
          ELSE \/ /\ last'.op = "detect"
                  /\ blocked_ips.val[a].duration > 0
                  /\ clock - blocked_ips.val[a].block_time > blocked_ips.val[a].duration
               \/ /\ last'.op = "unblock"
                  /\ last'.ip = a
               \/ last'.op = "reset"]_vars

\* C29 witness: a detection pass has just blocked 10.0.0.3 while the entry
\* of 10.0.0.5 was in the registry (10.0.0.3, first in the ledger, was
\* unblocked in between and is now the later entry), and the record of
\* 10.0.0.5 counts a frame handled since the start.
C29_Witness ==
    /\ last.op = "detect"
    /\ blocked_ips.keys = <<"10.0.0.5", "10.0.0.3">>
    /\ Has(traffic_stats, "10.0.0.5")
    /\ traffic_stats.val["10.0.0.5"].packet_count = 2

\* C30: an address gets a block entry only in a detection pass, and only
\* when, as the pass starts, the address has a traffic record, is not in
\* the whitelist, and some enabled rule of the active rule list evaluates
\* true on that record.  No frame and no API operation creates an entry.
C30_EntryCreatedByDetectionOnly ==
    [][\A a \in NewlyBlocked :
          /\ last'.op = "detect"
          /\ Has(traffic_stats, a)
          /\ a \notin whitelist
          /\ Matching(detection_rules, traffic_stats.val[a]) # {}
          /\ blocked_ips'.val[a].rule \in
                {detection_rules[i].name :
                    i \in Matching(detection_rules, traffic_stats.val[a])}]_vars

\* C30 witness: a detection pass at a later time has just blocked 10.0.0.5,
\* while 10.0.0.3, tracked with rates on which an enabled rule holds, is
\* whitelisted and has no entry.
C30_Witness ==
    /\ last.op = "detect"
    /\ clock > 0
    /\ Blocked(blocked_ips, "10.0.0.5")
    /\ blocked_ips.val["10.0.0.5"].block_time = clock
    /\ "10.0.0.3" \in whitelist
    /\ Has(traffic_stats, "10.0.0.3")
    /\ Matching(detection_rules, traffic_stats.val["10.0.0.3"]) # {}
    /\ ~Blocked(blocked_ips, "10.0.0.3")

\* C31: every iteration of the detector runs the expiry sweep after its
\* threat phase, whatever happened there: when an iteration is over, no
\* entry that was expired as it started (positive duration, age above it)
\* is left in the registry.
C31_SweepEveryIteration ==
    [][last'.op = "detect" =>
          \A a \in Addrs :
             (Blocked(blocked_ips, a) /\ Expired(blocked_ips.val[a], clock))
                => ~Blocked(blocked_ips', a)]_vars

\* C32: the stats thread removes a record only when, at the moment of the
\* removal, its last_seen is more than 60 seconds old: a record that got a
\* frame after the inactivity test stays, with that frame counted.
C32_EvictsOnlyInactive ==
    [][\A a \in Addrs :
          (last'.op = "stats_step" /\ Has(traffic_stats, a) /\ ~Has(traffic_stats', a))
             => clock - traffic_stats.val[a].last_seen > InactiveSeconds]_vars

\* C33: every record of the ledger has counted at least one frame; no read
\* of the ledger by a thread creates a record.
C33_RecordsHavePackets ==
    \A a \in DOMAIN traffic_stats.val : traffic_stats.val[a].packet_count >= 1

\* C34: when removals of one entry run concurrently, the request that
\* passed the membership test and sent the remove instructions is the one
\* that removes the entry: at its last statement the entry is still there
\* and it answers success, never an error.
C34_OneRemoverPerEntry ==
    [][(calls.unblock.pc = "del" /\ calls'.unblock.pc = "idle") =>
          /\ Has(blocked_ips, calls.unblock.src_ip)
          /\ last'.result = "200"]_vars

\* C35: the rates stored in a block entry make the rule it names evaluate
\* true: the rule of that name in the rule list is true on the entry's pps
\* and bps.
C35_EntryRatesTrigger ==
    \A a \in DOMAIN blocked_ips.val :
       \E i \in DOMAIN detection_rules :
          /\ detection_rules[i].name = blocked_ips.val[a].rule
          /\ RefEvaluate(detection_rules[i],
                         [pps |-> blocked_ips.val[a].pps, bps |-> blocked_ips.val[a].bps])

\* C36: a call of _block_ip or _unblock_ip leaves no drop rule on a switch
\* for an address without a block entry, however the call ended: every drop
\* rule the call installed is for an address that has an entry when the
\* call is over, and when the call removed an entry every known switch got
\* the instruction to delete the address's drop rule.
C36_NoOrphanDropRules ==
    [][/\ \A i \in DOMAIN out' :
             (out'[i].op = "add" /\ out'[i].priority = DropPriority)
                => Blocked(blocked_ips', out'[i].match)
       /\ \A a \in Addrs :
             (Blocked(blocked_ips, a) /\ ~Blocked(blocked_ips', a))
                => \A dpid \in SeqToSet(switches) :
                      FlowDelete(dpid, DropPriority, a) \in SeqToSet(out')]_vars

\* C37: after a configuration update that reports success the stored
\* configuration is the payload, the live whitelist is exactly the set of
\* the payload's whitelist (empty when the payload has none), whatever the
\* whitelist held before, and the active rule list is the payload's; a
\* whitelist addition leaves the stored configuration, which is what
\* GET /config returns, as it was.
C37_ConfigReplacesWhitelist ==
    [][/\ (last'.op = "update_config" /\ last'.result = "200") =>
             /\ config' \in Payloads
             /\ whitelist' = SeqToSet(Get(config'.v, "whitelist", <<>>))
             /\ detection_rules' = config'.v.detection_rules
       /\ last'.op = "add_whitelist" => UNCHANGED <<config, detection_rules>>]_vars

\* C37 witness: a configuration without a whitelist has just been accepted
\* and the live whitelist is empty.
C37_Witness ==
    /\ last.op = "update_config"
    /\ last.result = "200"
    /\ config = EmptyRulesConfig
    /\ "whitelist" \notin DOMAIN config.v
    /\ whitelist = {}
    /\ detection_rules = <<>>

\* C38: an entry made by a rule whose action type is temporary is reported
\* with block type temporary and there is a time at which the expiry sweep
\* removes it, whatever the rule's duration (0 and absent included); an
\* entry made by a rule whose action type is permanent is reported as
\* permanent.
C38_ActionTypeIsBlockType ==
    \A a \in DOMAIN blocked_ips.val :
       \A rule \in KindRules :
          rule.name = blocked_ips.val[a].rule =>
             /\ block_type(blocked_ips.val[a]) = rule.action.type
             /\ rule.action.type = "temporary" =>
                   \E now \in 0..(blocked_ips.val[a].block_time + DefaultDuration + 1) :
                      Expired(blocked_ips.val[a], now)

====
